---- MODULE Spec2Model ----
(***************************************************************************)
(* Backtest simulator (src/lib/backtest-engine.ts, pinescript-runtime) and *)
(* parameter optimizer (src/lib/pinescript-parser.ts) of backtestnow2.     *)
(*                                                                         *)
(* Numbers of the program are IEEE doubles; the model computes with exact  *)
(* rationals [n |-> numerator, d |-> denominator], d > 0, in lowest terms. *)
(* NaN (and JavaScript's undefined where a number is read) is the value    *)
(* with d = 0.  Arrays are 0-based in the source and are sequences here:   *)
(* At(a, i) reads a[i].                                                    *)
(***************************************************************************)
EXTENDS Integers, Sequences, FiniteSets, TLC

\* ---- bounds of the model ------------------------------------------------
MaxBars   == 4      \* longest bar series
MaxPrice  == 3      \* close prices are 1..MaxPrice
MaxPeriod == 3      \* indicator periods are 1..MaxPeriod
MaxStep   == 2      \* a rising series gains 1..MaxStep a bar
MaxPointValue == 2  \* point values of futures assets are 1..MaxPointValue

\* ---- program constants -----------------------------------------------------
DefaultOversold   == 30
DefaultOverbought == 70
DefaultMult       == 2

VARIABLES
  strategy,     \* "pine" or the preset run by this call
  closes,       \* ohlcv.map(c => c.close)
  prm,          \* the preset's numeric arguments
  ind,          \* the indicator arrays computed before the loop
  sigs,         \* runtime.signals (DSL path)
  conds,        \* runtime.vars restricted to the signals' condition names
  pc,           \* "loop" | "done"
  bar,          \* loop variable i
  sigIdx,       \* position of the inner `for (const sig of runtime.signals)`
  position,     \* OpenPosition | null
  trades,       \* Trade[]
  equity,       \* let equity
  equityCurve,  \* number[]
  opened,       \* history: how many positions were ever opened
  result,       \* the returned BacktestResult's metrics (once pc = "done")
  assetConfig   \* the AssetConfig of the call: type and pointValue

btVars == <<strategy, closes, prm, ind, sigs, conds, pc, bar, sigIdx,
            position, trades, equity, equityCurve, opened, result, assetConfig>>

\* the optimizer (optimize and its generator iterateCombinations)
VARIABLES
  config,       \* OptimizationConfig, with the simulator's outcomes for the fixed ohlcv
  axes,         \* { name, values }[] built from the enabled ranges
  pcO,          \* "idle" | "start" | "gen" | "visit" | "run" | "sort" | "done" | "threw"
  gidx,         \* grid: index of the value each nested `for` of recurse is at
  seen,         \* sampling: the Set of keys
  count,        \* sampling: let count
  combo,        \* the combination last built by the generator
  params,       \* { ...config.fixedParams, ...combo } of the current iteration
  testedCount,  \* let testedCount
  timedOut,     \* let timedOut
  backResults,  \* BacktestResult[]
  summary,      \* the returned OptimizationSummary (once pcO = "done")
  now,          \* Date.now()
  yielded,      \* history: what the generator yielded, with the indices it was built from
  simulated,    \* history: the parameter maps runOne was called with
  processed,    \* history: how many yielded combinations the loop body finished
  lateRuns      \* history: simulator runs started with the clock past deadlineMs

optVars == <<config, axes, pcO, gidx, seen, count, combo, params, testedCount,
             timedOut, backResults, summary, now, yielded, simulated, processed,
             lateRuns>>

\* the script runtime of the DSL path (PineRuntime)
VARIABLES
  code,         \* the lines of the script
  rt            \* the PineRuntime: vars, signals, and whether execute threw

pineVars == <<code, rt>>

\* a direct call of an indicator function
VARIABLES
  indCall       \* fn, its arguments prices and period, the array it returned, and
                \* given: the prices as they were when the call was made

indVars == <<indCall>>

NoCall  == [fn |-> "none", prices |-> << >>, given |-> << >>, period |-> 0, result |-> << >>, pc |-> "idle"]
IndIdle == indCall = NoCall

\* {}
EmptyObj == [x \in {} |-> 0]

\* obj[k] = v
Assign(obj, k, v) == [x \in (DOMAIN obj) \cup {k} |-> IF x = k THEN v ELSE obj[x]]

\* no optimization is running
OptIdle ==
  /\ config = [strategyType |-> "", paramRanges |-> << >>, maxCombinations |-> 0]
  /\ axes = << >> /\ pcO = "idle" /\ gidx = << >> /\ seen = {} /\ count = 0
  /\ combo = EmptyObj /\ params = EmptyObj /\ testedCount = 0 /\ timedOut = FALSE
  /\ backResults = << >> /\ summary = << >> /\ now = 0
  /\ yielded = << >> /\ simulated = << >> /\ processed = 0
  /\ lateRuns = 0

\* ---- exact rational arithmetic -------------------------------------------
Abs(x) == IF x < 0 THEN -x ELSE x

RECURSIVE GCD(_, _)
GCD(a, b) == IF b = 0 THEN a ELSE GCD(b, a % b)

NaN == [n |-> 0, d |-> 0]
IsNaN(x) == x.d = 0

Norm(n, d) ==
  IF d = 0 THEN NaN
  ELSE LET g == GCD(Abs(n), Abs(d))
           s == IF d < 0 THEN -1 ELSE 1
       IN  [n |-> (s * n) \div g, d |-> (s * d) \div g]

R(k) == [n |-> k, d |-> 1]

\* Denominators are cancelled before multiplying, as the products must stay
\* within 32-bit integers.
RAdd(a, b) ==
  IF IsNaN(a) \/ IsNaN(b) THEN NaN
  ELSE LET g == GCD(a.d, b.d)
       IN  Norm(a.n * (b.d \div g) + b.n * (a.d \div g), (a.d \div g) * b.d)
RNeg(a) == IF IsNaN(a) THEN NaN ELSE [n |-> -a.n, d |-> a.d]
RSub(a, b) == RAdd(a, RNeg(b))
RMul(a, b) ==
  IF IsNaN(a) \/ IsNaN(b) THEN NaN
  ELSE LET g1 == GCD(Abs(a.n), b.d)
           g2 == GCD(Abs(b.n), a.d)
       IN  Norm((a.n \div g1) * (b.n \div g2), (a.d \div g2) * (b.d \div g1))
\* a / b; no division of the modelled code has a zero divisor for prices > 0
\* and periods >= 1 (calcRSI tests avgLoss === 0 first)
RDiv(a, b) ==
  IF IsNaN(a) \/ IsNaN(b) \/ b.n = 0 THEN NaN
  ELSE RMul(a, IF b.n < 0 THEN [n |-> -b.d, d |-> -b.n] ELSE [n |-> b.d, d |-> b.n])

\* comparisons of doubles: false as soon as one operand is NaN
RLt(a, b) ==
  /\ ~IsNaN(a) /\ ~IsNaN(b)
  /\ LET g == GCD(a.d, b.d) IN a.n * (b.d \div g) <  b.n * (a.d \div g)
RLe(a, b) ==
  /\ ~IsNaN(a) /\ ~IsNaN(b)
  /\ LET g == GCD(a.d, b.d) IN a.n * (b.d \div g) <= b.n * (a.d \div g)
RGt(a, b) == RLt(b, a)
RGe(a, b) == RLe(b, a)

Max2(x, y) == IF x >= y THEN x ELSE y

\* a[i] of a 0-based array; out of range reads undefined, which isNaN
At(a, i) == IF i >= 0 /\ i < Len(a) THEN a[i + 1] ELSE NaN

\* ---- indicator library ------------------------------------------------------
\* `sum` of calcSMA after iteration i: prices[i] has been added and
\* prices[i - period] taken out, which leaves the prices of the last `period`
\* iterations, summed here from prices[from] up to prices[i]
RECURSIVE sumFrom(_, _, _)
sumFrom(prices, from, i) ==
  IF from > i THEN R(0) ELSE RAdd(sumFrom(prices, from, i - 1), At(prices, i))

smaSum(prices, period, i) == sumFrom(prices, Max2(0, i - period + 1), i)

calcSMA(prices, period) ==
  [x \in 1..Len(prices) |->
     IF x - 1 >= period - 1 THEN RDiv(smaSum(prices, period, x - 1), R(period)) ELSE NaN]

\* `ema` of calcEMA after iteration i (seeded with prices[0])
RECURSIVE emaAt(_, _, _)
emaAt(prices, period, i) ==
  IF i = 0 THEN At(prices, 0)
  ELSE LET k == Norm(2, period + 1)
       IN  RAdd(RMul(At(prices, i), k), RMul(emaAt(prices, period, i - 1), RSub(R(1), k)))

\* result[0] = ema is written even for an empty input, which makes the result one long
calcEMA(prices, period) ==
  [x \in 1..(IF Len(prices) = 0 THEN 1 ELSE Len(prices)) |-> emaAt(prices, period, x - 1)]

RECURSIVE wmaSum(_, _, _, _)
wmaSum(prices, period, i, j) ==
  IF j >= period THEN R(0)
  ELSE RAdd(RMul(At(prices, i - j), R(period - j)), wmaSum(prices, period, i, j + 1))

calcWMA(prices, period) ==
  [x \in 1..Len(prices) |->
     IF x - 1 >= period - 1
     THEN RDiv(wmaSum(prices, period, x - 1, 0), Norm(period * (period + 1), 2))
     ELSE NaN]

\* <<avgGain, avgLoss>> after iterations 1..i of calcRSI's first loop
RECURSIVE rsiSeed(_, _, _)
rsiSeed(prices, period, i) ==
  IF i = 0 THEN <<R(0), R(0)>>
  ELSE LET p    == rsiSeed(prices, period, i - 1)
           diff == RSub(At(prices, i), At(prices, i - 1))
       IN  IF RGt(diff, R(0)) THEN <<RAdd(p[1], diff), p[2]>>
                              ELSE <<p[1], RSub(p[2], diff)>>

\* <<avgGain, avgLoss>> when result[i] is written, i >= period
RECURSIVE rsiAvg(_, _, _)
rsiAvg(prices, period, i) ==
  IF i <= period
  THEN LET s == rsiSeed(prices, period, period)
       IN  <<RDiv(s[1], R(period)), RDiv(s[2], R(period))>>
  ELSE LET p    == rsiAvg(prices, period, i - 1)
           diff == RSub(At(prices, i), At(prices, i - 1))
           gain == IF RGt(diff, R(0)) THEN diff ELSE R(0)
           loss == IF RLt(diff, R(0)) THEN RSub(R(0), diff) ELSE R(0)
       IN  <<RDiv(RAdd(RMul(p[1], R(period - 1)), gain), R(period)),
             RDiv(RAdd(RMul(p[2], R(period - 1)), loss), R(period))>>

rsiValue(avg) ==
  IF avg[2] = R(0) THEN R(100)
  ELSE RSub(R(100), RDiv(R(100), RAdd(R(1), RDiv(avg[1], avg[2]))))

\* result[period] is written whatever the input length: the array grows to period + 1
calcRSI(prices, period) ==
  LET len == IF Len(prices) > period THEN Len(prices) ELSE period + 1
  IN  [x \in 1..len |->
         IF x - 1 >= period THEN rsiValue(rsiAvg(prices, period, x - 1)) ELSE NaN]

getMA(prices, period, type) ==
  CASE type = "EMA" -> calcEMA(prices, period)
    [] type = "WMA" -> calcWMA(prices, period)
    [] OTHER        -> calcSMA(prices, period)

\* calcStdDev squared (the population variance over the window); the model
\* compares squares where the source compares against mid +- multiplier * std
RECURSIVE sumSq(_, _, _, _, _)
sumSq(prices, period, sma, i, j) ==
  IF j >= period THEN R(0)
  ELSE LET dv == RSub(At(prices, i - j), At(sma, i))
       IN  RAdd(RMul(dv, dv), sumSq(prices, period, sma, i, j + 1))

calcVariance(prices, period, sma) ==
  [x \in 1..Len(prices) |->
     IF x - 1 >= period - 1 THEN RDiv(sumSq(prices, period, sma, x - 1, 0), R(period)) ELSE NaN]

\* backtestMACD's macdLine and signalLine
macdLineOf(prices, fastLength, slowLength) ==
  LET fastEMA == calcEMA(prices, fastLength)
      slowEMA == calcEMA(prices, slowLength)
  IN  [x \in 1..Len(fastEMA) |->
         IF IsNaN(fastEMA[x]) \/ IsNaN(At(slowEMA, x - 1)) THEN NaN
         ELSE RSub(fastEMA[x], At(slowEMA, x - 1))]

signalLineOf(macdLine, signalLength) ==
  LET valid      == {x \in 1..Len(macdLine) : ~IsNaN(macdLine[x])}
      firstValid == IF valid = {} THEN -1
                    ELSE (CHOOSE x \in valid : \A y \in valid : x <= y) - 1
      sigEMA     == calcEMA(SubSeq(macdLine, firstValid + 1, Len(macdLine)), signalLength)
  IN  [x \in 1..Len(macdLine) |->
         IF firstValid >= 0 /\ x - 1 >= firstValid THEN sigEMA[x - firstValid] ELSE NaN]

\* ---- positions and trades ---------------------------------------------------
NoPos == [open |-> FALSE, entryIndex |-> 0, entryPrice |-> 0, direction |-> "none"]
OpenPos(i, price, dir) == [open |-> TRUE, entryIndex |-> i, entryPrice |-> price, direction |-> dir]

\* position?.direction !== dir
NotIn(pos, dir) == ~(pos.open /\ pos.direction = dir)

\* pnlPctOf with the direction ignored
pnlPctOfNoDirection(pos, exitPrice) ==
  RMul(Norm(pos.entryPrice - exitPrice, pos.entryPrice), R(100))

pnlPctOf(pos, exitPrice) ==
  IF pos.direction = "long"
  THEN RMul(Norm(exitPrice - pos.entryPrice, pos.entryPrice), R(100))
  ELSE RMul(Norm(pos.entryPrice - exitPrice, pos.entryPrice), R(100))

\* assetConfig's default: { type: 'crypto', pointValue: 1 }
DefaultAsset == [type |-> "crypto", pointValue |-> 1]

\* pnlDollars: (direction === 'long' ? pointsMove : -pointsMove) * pointValue
\* for a futures asset, else 0
pnlDollarsOf(pos, pointsMove) ==
  IF assetConfig.type = "futures"
  THEN (IF pos.direction = "long" THEN pointsMove ELSE -pointsMove) * assetConfig.pointValue
  ELSE 0

\* closeTrade of the presets
closeTrade(pos, exitIndex, exitPrice) ==
  [entryIndex |-> pos.entryIndex, exitIndex |-> exitIndex,
   entryPrice |-> pos.entryPrice, exitPrice |-> exitPrice,
   direction  |-> pos.direction,
   pnlPct     |-> pnlPctOf(pos, exitPrice),
   pointsMove |-> exitPrice - pos.entryPrice,
   pnlDollars |-> pnlDollarsOf(pos, exitPrice - pos.entryPrice)]

\* makeClosedTrade of the DSL path (the same computation, its own copy)
makeClosedTrade(pos, exitIndex, exitPrice) ==
  [entryIndex |-> pos.entryIndex, exitIndex |-> exitIndex,
   entryPrice |-> pos.entryPrice, exitPrice |-> exitPrice,
   direction  |-> pos.direction,
   pnlPct     |-> pnlPctOf(pos, exitPrice),
   pointsMove |-> exitPrice - pos.entryPrice,
   pnlDollars |-> pnlDollarsOf(pos, exitPrice - pos.entryPrice)]

\* equity *= (1 + t.pnlPct / 100)
EquityAfter(eq, t) == RMul(eq, RAdd(R(1), RDiv(t.pnlPct, R(100))))

\* The part of the run's state a bar changes.
Cur == [position |-> position, trades |-> trades, equity |-> equity, opened |-> opened]

\* trades.push(t); equity *= (1 + t.pnlPct / 100)
Realize(st, t) == [st EXCEPT !.trades = Append(@, t), !.equity = EquityAfter(@, t)]

\* the new position opened over the open one, which is never closed
ReverseWithoutClose(st, dir, i, price) ==
  [st EXCEPT !.position = OpenPos(i, price, dir), !.opened = @ + 1]

\* `if (position) { close }  position = { entryIndex: i, ... }` of the presets
Reverse(st, dir, i, price) ==
  LET closed == IF st.position.open THEN Realize(st, closeTrade(st.position, i, price)) ELSE st
  IN  [closed EXCEPT !.position = OpenPos(i, price, dir), !.opened = @ + 1]

\* the trade is recorded and the position stays open
FlattenKeepsPosition(st, i, price) == Realize(st, closeTrade(st.position, i, price))

\* close and `position = null` of the presets
Flatten(st, i, price) ==
  [Realize(st, closeTrade(st.position, i, price)) EXCEPT !.position = NoPos]

N == Len(closes)
Close(i) == closes[i + 1]
Prices == [x \in 1..Len(closes) |-> R(closes[x])]

\* ---- the presets' decision at bar i ---------------------------------------
dualMABar(st, i) ==
  LET fastMA == ind.a
      slowMA == ind.b
      crossOver  == RLt(At(fastMA, i - 1), At(slowMA, i - 1)) /\ RGe(At(fastMA, i), At(slowMA, i))
      crossUnder == RGt(At(fastMA, i - 1), At(slowMA, i - 1)) /\ RLe(At(fastMA, i), At(slowMA, i))
  IN  IF IsNaN(At(fastMA, i)) \/ IsNaN(At(slowMA, i)) \/ IsNaN(At(fastMA, i - 1)) \/ IsNaN(At(slowMA, i - 1))
      THEN st
      ELSE IF crossOver /\ NotIn(st.position, "long") THEN Reverse(st, "long", i, Close(i))
      ELSE IF crossUnder /\ NotIn(st.position, "short") THEN Reverse(st, "short", i, Close(i))
      ELSE st

Bullish(i) == RGt(At(ind.a, i), At(ind.b, i)) /\ RGt(At(ind.b, i), At(ind.c, i))
Bearish(i) == RLt(At(ind.a, i), At(ind.b, i)) /\ RLt(At(ind.b, i), At(ind.c, i))

\* tripleMABar without the branch that closes on a neutral bar
tripleMABarNoNeutralClose(st, i) ==
  IF \E a \in {ind.a, ind.b, ind.c} : IsNaN(At(a, i)) \/ IsNaN(At(a, i - 1))
  THEN st
  ELSE IF Bullish(i) /\ ~Bullish(i - 1) /\ NotIn(st.position, "long")
       THEN Reverse(st, "long", i, Close(i))
  ELSE IF Bearish(i) /\ ~Bearish(i - 1) /\ NotIn(st.position, "short")
       THEN Reverse(st, "short", i, Close(i))
  ELSE st

tripleMABar(st, i) ==
  IF \E a \in {ind.a, ind.b, ind.c} : IsNaN(At(a, i)) \/ IsNaN(At(a, i - 1))
  THEN st
  ELSE IF Bullish(i) /\ ~Bullish(i - 1) /\ NotIn(st.position, "long")
       THEN Reverse(st, "long", i, Close(i))
  ELSE IF Bearish(i) /\ ~Bearish(i - 1) /\ NotIn(st.position, "short")
       THEN Reverse(st, "short", i, Close(i))
  ELSE IF ~Bullish(i) /\ ~Bearish(i) /\ st.position.open
       THEN Flatten(st, i, Close(i))
  ELSE st

rsiBar(st, i) ==
  LET rsi == ind.a
      crossOversold   == RLt(At(rsi, i - 1), R(prm.oversold))   /\ RGe(At(rsi, i), R(prm.oversold))
      crossOverbought == RGt(At(rsi, i - 1), R(prm.overbought)) /\ RLe(At(rsi, i), R(prm.overbought))
  IN  IF IsNaN(At(rsi, i)) \/ IsNaN(At(rsi, i - 1)) THEN st
      ELSE IF crossOversold /\ NotIn(st.position, "long") THEN Reverse(st, "long", i, Close(i))
      ELSE IF crossOverbought /\ NotIn(st.position, "short") THEN Reverse(st, "short", i, Close(i))
      ELSE st

macdBar(st, i) ==
  LET macdLine   == ind.a
      signalLine == ind.b
      crossOver  == RLt(At(macdLine, i - 1), At(signalLine, i - 1)) /\ RGe(At(macdLine, i), At(signalLine, i))
      crossUnder == RGt(At(macdLine, i - 1), At(signalLine, i - 1)) /\ RLe(At(macdLine, i), At(signalLine, i))
  IN  IF IsNaN(At(macdLine, i)) \/ IsNaN(At(macdLine, i - 1)) \/ IsNaN(At(signalLine, i)) \/ IsNaN(At(signalLine, i - 1))
      THEN st
      ELSE IF crossOver /\ NotIn(st.position, "long") THEN Reverse(st, "long", i, Close(i))
      ELSE IF crossUnder /\ NotIn(st.position, "short") THEN Reverse(st, "short", i, Close(i))
      ELSE st

\* close <= lower[i], lower = mid - multiplier * std, multiplier >= 0:
\* multiplier * std <= mid - close, compared through the squares
TouchLower(i) ==
  LET dlt == RSub(At(ind.a, i), R(Close(i)))
  IN  RGe(dlt, R(0)) /\ RLe(RMul(R(prm.mult * prm.mult), At(ind.b, i)), RMul(dlt, dlt))
\* close >= upper[i]
TouchUpper(i) ==
  LET dlt == RSub(R(Close(i)), At(ind.a, i))
  IN  RGe(dlt, R(0)) /\ RLe(RMul(R(prm.mult * prm.mult), At(ind.b, i)), RMul(dlt, dlt))

\* bollingerBar that closes an open position at any bar, whatever the basis
bollingerBarAnyClose(st, i) ==
  IF IsNaN(At(ind.a, i)) \/ IsNaN(At(ind.b, i)) THEN st
  ELSE IF ~st.position.open
       THEN IF TouchLower(i) THEN [st EXCEPT !.position = OpenPos(i, Close(i), "long"), !.opened = @ + 1]
            ELSE IF TouchUpper(i) THEN [st EXCEPT !.position = OpenPos(i, Close(i), "short"), !.opened = @ + 1]
            ELSE st
  ELSE Flatten(st, i, Close(i))

bollingerBar(st, i) ==
  LET mid == ind.a
  IN  IF IsNaN(At(mid, i)) \/ IsNaN(At(ind.b, i)) THEN st
      ELSE IF ~st.position.open
           THEN IF TouchLower(i) THEN [st EXCEPT !.position = OpenPos(i, Close(i), "long"), !.opened = @ + 1]
                ELSE IF TouchUpper(i) THEN [st EXCEPT !.position = OpenPos(i, Close(i), "short"), !.opened = @ + 1]
                ELSE st
      ELSE IF st.position.direction = "long" /\ RGe(R(Close(i)), At(mid, i)) THEN Flatten(st, i, Close(i))
      ELSE IF st.position.direction = "short" /\ RLe(R(Close(i)), At(mid, i)) THEN Flatten(st, i, Close(i))
      ELSE st

\* ---- DSL path: signals -----------------------------------------------------
\* runtime.getCondAt: condition name 0 is the scalar bound to `true` (calls
\* outside every `if`), k >= 1 the series bound to the k-th guard
getCondAt(condName, idx) ==
  IF condName = 0 THEN TRUE
  ELSE idx >= 0 /\ idx < Len(conds[condName]) /\ conds[condName][idx + 1]

\* PineReverse that drops the open opposite position without realizing it
PineReverseNoClose(st, dir, i, price) ==
  [st EXCEPT !.position = OpenPos(i, price, dir), !.opened = @ + 1]

PineReverse(st, dir, i, price) ==
  LET closed == IF st.position.open THEN Realize(st, makeClosedTrade(st.position, i, price)) ELSE st
  IN  [closed EXCEPT !.position = OpenPos(i, price, dir), !.opened = @ + 1]

PineClose(st, i, price) ==
  [Realize(st, makeClosedTrade(st.position, i, price)) EXCEPT !.position = NoPos]

\* the switch (sig.type) of runPineScriptBacktest
applySignal(st, type, i, price) ==
  CASE type = "long"        -> IF NotIn(st.position, "long")  THEN PineReverse(st, "long", i, price)  ELSE st
    [] type = "short"       -> IF NotIn(st.position, "short") THEN PineReverse(st, "short", i, price) ELSE st
    [] type = "close_long"  -> IF st.position.open /\ st.position.direction = "long"  THEN PineClose(st, i, price) ELSE st
    [] type = "close_short" -> IF st.position.open /\ st.position.direction = "short" THEN PineClose(st, i, price) ELSE st
    [] type = "close_all"   -> IF st.position.open THEN PineClose(st, i, price) ELSE st
    [] OTHER                -> st

\* ---- metrics ---------------------------------------------------------------
\* parseFloat(x.toFixed(2)): the nearest multiple of 1/100, ties away from zero
ToFixed2(x) ==
  IF IsNaN(x) THEN NaN
  ELSE LET m == Abs(x.n) * 100
           q == (2 * m + x.d) \div (2 * x.d)
       IN  Norm((IF x.n < 0 THEN -1 ELSE 1) * q, 100)

NoResult == [totalTrades |-> -1, totalReturnPct |-> NaN, maxDrawdownPct |-> NaN]

\* the max-drawdown loop over the first k entries of the curve: [peak, maxDD]
RECURSIVE drawdown(_, _)
drawdown(curve, k) ==
  IF k = 0 THEN [peak |-> curve[1], maxDD |-> R(0)]
  ELSE LET prev == drawdown(curve, k - 1)
           eq   == curve[k]
           peak == IF RGt(eq, prev.peak) THEN eq ELSE prev.peak
           dd   == RMul(RDiv(RSub(peak, eq), peak), R(100))
       IN  [peak |-> peak, maxDD |-> IF RGt(dd, prev.maxDD) THEN dd ELSE prev.maxDD]

calcMetrics(trs, curve) ==
  IF Len(trs) = 0
  THEN [totalTrades |-> 0, totalReturnPct |-> R(0), maxDrawdownPct |-> R(0)]
  ELSE [totalTrades |-> Len(trs),
        totalReturnPct |-> ToFixed2(RSub(curve[Len(curve)], R(100))),
        maxDrawdownPct |-> ToFixed2(drawdown(curve, Len(curve)).maxDD)]

\* ---- inputs ----------------------------------------------------------------
Strategies == {"pine", "dual_ma", "triple_ma", "rsi", "macd", "bollinger"}
MATypes    == {"SMA", "EMA", "WMA"}
Periods    == 1..MaxPeriod
Series     == UNION {[1..n -> 1..MaxPrice] : n \in 1..MaxBars}

\* MACD warms up for slow + signal bars: its runs also get the series one bar
\* longer that swing between the lowest and the highest price
LongSeries  == [1..(MaxBars + 1) -> {1, MaxPrice}]
\* the triple-MA loop starts at the slowest period: one more bar lets a position
\* opened at the first bar be held, reversed or closed at the next
TripleSeries == [1..(MaxBars + 1) -> 1..MaxPrice]
SeriesOf(s) ==
  CASE s = "macd"      -> Series \cup LongSeries
    [] s = "triple_ma" -> Series \cup TripleSeries
    [] OTHER           -> Series

\* period triples in strictly increasing or strictly decreasing order
Monotone   == {q \in Periods \X Periods \X Periods :
                 (q[1] < q[2] /\ q[2] < q[3]) \/ (q[1] > q[2] /\ q[2] > q[3])}

ZeroPrm == [fast |-> 0, mid |-> 0, slow |-> 0, signal |-> 0, period |-> 0,
            oversold |-> 0, overbought |-> 0, mult |-> 0, maType |-> "none"]

ParamChoices(s) ==
  CASE s = "dual_ma"   -> {[ZeroPrm EXCEPT !.fast = f, !.slow = w, !.maType = t] :
                              f \in Periods, w \in Periods, t \in MATypes}
    [] s = "triple_ma" -> {[ZeroPrm EXCEPT !.fast = q[1], !.mid = q[2], !.slow = q[3], !.maType = t] :
                              q \in Monotone, t \in MATypes}
    [] s = "rsi"       -> {[ZeroPrm EXCEPT !.period = p, !.oversold = DefaultOversold,
                                           !.overbought = DefaultOverbought] : p \in Periods}
    [] s = "macd"      -> {[ZeroPrm EXCEPT !.fast = q[1], !.slow = q[2], !.signal = g] :
                              q \in {r \in Periods \X Periods : r[1] # r[2]}, g \in Periods}
    [] s = "bollinger" -> {[ZeroPrm EXCEPT !.period = p, !.mult = m] : p \in Periods, m \in 1..DefaultMult}
    [] OTHER           -> {ZeroPrm}

\* The scripts under test, as the signals execute() records for them: each
\* entry/exit call with the kind of its guard ("true": outside every `if`;
\* "up": `if close > close[1]`; "down": `if close < close[1]`).
Scripts ==
  { << <<"long", "up">>,   <<"close_long", "down">> >>,
    << <<"long", "up">>,   <<"short", "down">> >>,
    << <<"short", "up">>,  <<"close_short", "down">> >>,
    << <<"short", "up">>,  <<"long", "down">> >>,
    << <<"long", "true">>, <<"short", "true">> >>,
    << <<"long", "up">>,   <<"short", "up">> >>,
    << <<"short", "down">>, <<"close_all", "up">> >>,
    << <<"long", "down">>, <<"close_all", "up">>, <<"short", "up">> >>,
    << <<"long", "true">> >>,
    << <<"short", "true">> >>,
    << <<"short", "up">>, <<"close_long", "true">>, <<"long", "down">> >>,
    << >> }

condSeries(kind, cl) ==
  [x \in 1..Len(cl) |->
     IF x = 1 THEN FALSE
     ELSE IF kind = "up" THEN cl[x] > cl[x - 1] ELSE cl[x] < cl[x - 1]]

Indicators(s, p, prices) ==
  CASE s = "dual_ma"   -> [a |-> getMA(prices, p.fast, p.maType), b |-> getMA(prices, p.slow, p.maType), c |-> <<>>]
    [] s = "triple_ma" -> [a |-> getMA(prices, p.fast, p.maType), b |-> getMA(prices, p.mid, p.maType),
                           c |-> getMA(prices, p.slow, p.maType)]
    [] s = "rsi"       -> [a |-> calcRSI(prices, p.period), b |-> <<>>, c |-> <<>>]
    [] s = "macd"      -> [a |-> macdLineOf(prices, p.fast, p.slow),
                           b |-> signalLineOf(macdLineOf(prices, p.fast, p.slow), p.signal), c |-> <<>>]
    [] s = "bollinger" -> [a |-> calcSMA(prices, p.period),
                           b |-> calcVariance(prices, p.period, calcSMA(prices, p.period)), c |-> <<>>]
    [] OTHER           -> [a |-> <<>>, b |-> <<>>, c |-> <<>>]

\* the first bar index of the strategy's loop
LoopStart(s, p) ==
  CASE s = "dual_ma"   -> Max2(p.fast, p.slow)
    [] s = "triple_ma" -> Max2(p.fast, Max2(p.mid, p.slow))
    [] s = "rsi"       -> p.period + 1
    [] s = "macd"      -> Max2(p.slow + p.signal, 2)
    [] s = "bollinger" -> p.period
    [] OTHER           -> 1

\* LastIdx off by one
LastIdxOffByOne(n) == n - 2

\* the index the end-of-data close exits at
LastIdx(n) == n - 1

\* ---- the script runtime (PineRuntime): values ------------------------------------
\* A line of the script is [indent, toks]: the width of its leading white space
\* and its text after stripComment, cut into tokens (identifiers, numbers,
\* operators, brackets, commas, quoted strings); a blank line has no token.
\* A value of the runtime (AnyVal | null) is [t, s, str]: t = "array" with the
\* elements s, "num" or "bool" with the scalar s[1], "str" with the text str,
\* "null"; t = "throw" stands for an exception leaving the evaluation.
\* Booleans are 1 and 0 (what JavaScript coerces them to in comparisons and
\* arithmetic; only === between a boolean and a number tells them apart).
Null     == [t |-> "null",  s |-> << >>, str |-> ""]
Thrown   == [t |-> "throw", s |-> << >>, str |-> ""]
B(b)     == IF b THEN R(1) ELSE R(0)
Num(x)   == [t |-> "num",   s |-> <<x>>, str |-> ""]
Bool(b)  == [t |-> "bool",  s |-> <<B(b)>>, str |-> ""]
Str(x)   == [t |-> "str",   s |-> << >>, str |-> x]
Arr(seq) == [t |-> "array", s |-> seq, str |-> ""]

IsThrown(v) == v.t = "throw"
IsNull(v)   == v.t = "null"

\* Boolean(x) of a number or a boolean
Truthy(x) == ~IsNaN(x) /\ x.n # 0

\* new Array(this.n).fill(x)
Fill(x) == [i \in 1..N |-> x]

\* the numbers the scripts write
NumberTokens == <<"0", "1", "2", "3", "4", "5", "6", "7", "8", "9">>

\* parseFloat(e): the number the text starts with, NaN when it starts with none
parseFloat(toks) ==
  IF toks # << >> /\ \E k \in 1..Len(NumberTokens) : NumberTokens[k] = toks[1]
  THEN R((CHOOSE k \in 1..Len(NumberTokens) : NumberTokens[k] = toks[1]) - 1)
  ELSE NaN

\* quoted strings of the scripts, with the text between the quotes
StringTokens == <<"'Long'", "'Short'", "'EMA'", "'SMA'">>
StringTexts  == <<"Long", "Short", "EMA", "SMA">>

IsStringToken(tok) == \E k \in 1..Len(StringTokens) : StringTokens[k] = tok
textOf(tok) == StringTexts[CHOOSE k \in 1..Len(StringTokens) : StringTokens[k] = tok]

\* Math.max(1, Math.round(x)) for x that is not NaN
roundLen(x) ==
  LET q == (2 * x.n + x.d) \div (2 * x.d)
  IN  IF q < 1 THEN 1 ELSE q

\* ---- the script runtime: splitting ------------------------------------------------
\* `depth` of splitBinary and splitArgs when the scan reaches position i
depthBefore(toks, i) ==
  Cardinality({j \in 1..(i - 1) : toks[j] \in {"(", "["}})
    - Cardinality({j \in 1..(i - 1) : toks[j] \in {")", "]"}})

\* splitBinary(expr, op): the first op outside every bracket with text on both
\* sides (an operator is one token, so `>` is never found inside `>=`)
splitBinary(toks, op) ==
  LET at == {i \in 2..(Len(toks) - 1) : toks[i] = op /\ depthBefore(toks, i) = 0}
  IN  IF at = {} THEN [ok |-> FALSE, left |-> << >>, right |-> << >>]
      ELSE LET i == CHOOSE x \in at : \A y \in at : x <= y
           IN  [ok |-> TRUE, left |-> SubSeq(toks, 1, i - 1), right |-> SubSeq(toks, i + 1, Len(toks))]

\* splitArgs(argsStr): cut at the commas outside every bracket; what follows the
\* last comma is an argument only when it is not empty
RECURSIVE splitArgs(_)
splitArgs(toks) ==
  LET at == {i \in 1..Len(toks) : toks[i] = "," /\ depthBefore(toks, i) = 0}
  IN  IF at = {} THEN (IF toks = << >> THEN << >> ELSE <<toks>>)
      ELSE LET i == CHOOSE x \in at : \A y \in at : x <= y
           IN  <<SubSeq(toks, 1, i - 1)>> \o splitArgs(SubSeq(toks, i + 1, Len(toks)))

\* parseFuncCall(expr): name before the first "(", arguments up to the final ")"
parseFuncCall(toks) ==
  LET opens == {i \in 1..Len(toks) : toks[i] = "("}
  IN  IF opens = {} \/ toks[Len(toks)] # ")" THEN [ok |-> FALSE, name |-> << >>, args |-> << >>]
      ELSE LET i == CHOOSE x \in opens : \A y \in opens : x <= y
           IN  [ok |-> TRUE, name |-> SubSeq(toks, 1, i - 1),
                args |-> splitArgs(SubSeq(toks, i + 1, Len(toks) - 1))]

\* ---- the script runtime: evalExpr -------------------------------------------------
RECURSIVE evalExpr(_, _)
RECURSIVE evalTernary(_, _)
RECURSIVE evalLogic(_, _, _, _)
RECURSIVE evalNot(_, _)
RECURSIVE evalCompare(_, _, _)
RECURSIVE evalArith(_, _, _)
RECURSIVE evalTail(_, _)
RECURSIVE evalFunc(_, _, _)
RECURSIVE evalExprAsNumSeries(_, _)
RECURSIVE evalExprAsBoolSeries(_, _)
RECURSIVE resolveNumSrc(_, _, _)

\* this.numSeries(name)
numSeries(toks, vs) ==
  IF Len(toks) = 1 /\ toks[1] \in DOMAIN vs /\ vs[toks[1]].t = "array" THEN vs[toks[1]] ELSE Null

evalExprAsNumSeries(toks, vs) ==
  IF ~IsNull(numSeries(toks, vs)) THEN numSeries(toks, vs)
  ELSE LET val == evalExpr(toks, vs)
       IN  IF val.t \in {"array", "throw"} THEN val
           ELSE IF val.t = "num" THEN Arr(Fill(val.s[1]))
           ELSE Null

evalExprAsBoolSeries(toks, vs) ==
  IF ~IsNull(numSeries(toks, vs)) THEN numSeries(toks, vs)
  ELSE IF Len(toks) = 1 /\ toks[1] \in DOMAIN vs /\ vs[toks[1]].t = "bool" THEN Arr(Fill(vs[toks[1]].s[1]))
  ELSE LET val == evalExpr(toks, vs)
       IN  IF val.t \in {"array", "throw"} THEN val
           ELSE IF val.t = "bool" THEN Arr(Fill(val.s[1]))
           ELSE Null

\* resolveNumSrc(args[k - 1]); reading .trim() of a missing argument throws
resolveNumSrc(args, k, vs) ==
  IF k > Len(args) THEN Thrown
  ELSE IF ~IsNull(numSeries(args[k], vs)) THEN numSeries(args[k], vs)
  ELSE IF ~IsNaN(parseFloat(args[k])) THEN Arr(Fill(parseFloat(args[k])))
  ELSE LET val == evalExpr(args[k], vs)
       IN  IF val.t \in {"array", "throw"} THEN val
           ELSE IF val.t = "num" THEN Arr(Fill(val.s[1]))
           ELSE Null

\* resolveLen(args[k - 1]): [threw, len]
resolveLen(args, k, vs) ==
  IF k > Len(args) THEN [threw |-> TRUE, len |-> 0]
  ELSE LET e == args[k]
       IN  IF Len(e) = 1 /\ e[1] \in DOMAIN vs /\ vs[e[1]].t = "num" /\ ~IsNaN(vs[e[1]].s[1])
           THEN [threw |-> FALSE, len |-> roundLen(vs[e[1]].s[1])]
           ELSE IF IsNaN(parseFloat(e)) THEN [threw |-> FALSE, len |-> 14]
           ELSE [threw |-> FALSE, len |-> roundLen(parseFloat(e))]

evalExpr(toks, vs) ==
  IF toks = << >> THEN Null
  ELSE IF toks[1] = "(" /\ toks[Len(toks)] = ")" THEN evalExpr(SubSeq(toks, 2, Len(toks) - 1), vs)
  ELSE evalTernary(toks, vs)

\* cond ? a : b
evalTernary(toks, vs) ==
  LET ternary    == splitBinary(toks, "?")
      colonParts == splitBinary(ternary.right, ":")
  IN  IF ~ternary.ok \/ ~colonParts.ok THEN evalLogic(toks, vs, "or", 1)
      ELSE LET condSer  == evalExprAsBoolSeries(ternary.left, vs)
               trueSer  == evalExprAsNumSeries(colonParts.left, vs)
               falseSer == evalExprAsNumSeries(colonParts.right, vs)
           IN  IF IsThrown(condSer) THEN Thrown
               ELSE IF IsThrown(trueSer) THEN Thrown
               ELSE IF IsThrown(falseSer) THEN Thrown
               ELSE IF IsNull(condSer) \/ IsNull(trueSer) \/ IsNull(falseSer) THEN evalLogic(toks, vs, "or", 1)
               ELSE Arr([i \in 1..N |-> IF Truthy(condSer.s[i]) THEN trueSer.s[i] ELSE falseSer.s[i]])

\* the loops over [' or ', '||'] and then [' and ', '&&']
evalLogic(toks, vs, stage, k) ==
  LET ops == IF stage = "or" THEN <<"or", "||">> ELSE <<"and", "&&">>
  IN  IF k > Len(ops)
      THEN (IF stage = "or" THEN evalLogic(toks, vs, "and", 1) ELSE evalNot(toks, vs))
      ELSE LET parts == splitBinary(toks, ops[k])
               a == evalExprAsBoolSeries(parts.left, vs)
               b == evalExprAsBoolSeries(parts.right, vs)
           IN  IF ~parts.ok THEN evalLogic(toks, vs, stage, k + 1)
               ELSE IF IsThrown(a) THEN Thrown
               ELSE IF IsThrown(b) THEN Thrown
               ELSE IF IsNull(a) \/ IsNull(b) THEN evalLogic(toks, vs, stage, k + 1)
               ELSE Arr([i \in 1..N |->
                           IF stage = "or" THEN (IF Truthy(a.s[i]) THEN a.s[i] ELSE b.s[i])
                           ELSE (IF Truthy(a.s[i]) THEN b.s[i] ELSE a.s[i])])

\* not x, !x
evalNot(toks, vs) ==
  IF toks[1] \in {"not", "!"}
  THEN LET a == evalExprAsBoolSeries(Tail(toks), vs)
       IN  IF IsThrown(a) THEN Thrown
           ELSE IF IsNull(a) THEN evalCompare(toks, vs, 1)
           ELSE Arr([i \in 1..N |-> B(~Truthy(a.s[i]))])
  ELSE evalCompare(toks, vs, 1)

\* v op w of two numbers as JavaScript compares them: with a NaN operand
\* every comparison is false but !==, which is true
compare(op, v, w) ==
  CASE op = ">"  -> RGt(v, w)
    [] op = "<"  -> RLt(v, w)
    [] op = ">=" -> RGe(v, w)
    [] op = "<=" -> RLe(v, w)
    [] op = "==" -> ~IsNaN(v) /\ ~IsNaN(w) /\ v = w
    [] op = "!=" -> ~(~IsNaN(v) /\ ~IsNaN(w) /\ v = w)
    [] OTHER     -> FALSE

\* String(aVal) === String(bVal) for the scalars the scripts compare
sameString(a, b) ==
  \/ a.t = "str" /\ b.t = "str" /\ a.str = b.str
  \/ a.t \in {"num", "bool"} /\ b.t = a.t /\ a.s = b.s

\* the loop over ['>=', '<=', '!=', '==', '>', '<']
evalCompare(toks, vs, k) ==
  LET ops == <<">=", "<=", "!=", "==", ">", "<">>
  IN  IF k > Len(ops) THEN evalArith(toks, vs, 1)
      ELSE LET op    == ops[k]
               parts == splitBinary(toks, op)
               a     == evalExprAsNumSeries(parts.left, vs)
               b     == evalExprAsNumSeries(parts.right, vs)
               aVal  == evalExpr(parts.left, vs)
               bVal  == evalExpr(parts.right, vs)
           IN  IF ~parts.ok THEN evalCompare(toks, vs, k + 1)
               ELSE IF IsThrown(a) THEN Thrown
               ELSE IF IsThrown(b) THEN Thrown
               ELSE IF ~IsNull(a) /\ ~IsNull(b)
                    THEN Arr([i \in 1..N |-> B(compare(op, a.s[i], b.s[i]))])
               ELSE IF op \in {"==", "!="} /\ ~IsNull(aVal) /\ ~IsNull(bVal)
                    THEN Arr(Fill(B(IF op = "==" THEN sameString(aVal, bVal) ELSE ~sameString(aVal, bVal))))
               ELSE evalCompare(toks, vs, k + 1)

\* the loop over ['+', '-', '*', '/']
evalArith(toks, vs, k) ==
  LET ops == <<"+", "-", "*", "/">>
  IN  IF k > Len(ops) THEN evalTail(toks, vs)
      ELSE LET op    == ops[k]
               parts == splitBinary(toks, op)
               a     == evalExprAsNumSeries(parts.left, vs)
               b     == evalExprAsNumSeries(parts.right, vs)
           IN  IF ~parts.ok THEN evalArith(toks, vs, k + 1)
               ELSE IF IsThrown(a) THEN Thrown
               ELSE IF IsThrown(b) THEN Thrown
               ELSE IF IsNull(a) \/ IsNull(b) THEN evalArith(toks, vs, k + 1)
               ELSE Arr([i \in 1..N |->
                           CASE op = "+" -> RAdd(a.s[i], b.s[i])
                             [] op = "-" -> RSub(a.s[i], b.s[i])
                             [] op = "*" -> RMul(a.s[i], b.s[i])
                             [] OTHER    -> RDiv(a.s[i], b.s[i])])

\* series[n], function call, string literal, number, true/false, variable
evalTail(toks, vs) ==
  LET isIdx  == /\ Len(toks) = 4 /\ toks[2] = "[" /\ toks[4] = "]"
                /\ ~IsNaN(parseFloat(<<toks[3]>>))
      s      == numSeries(<<toks[1]>>, vs)
      offset == parseFloat(<<toks[3]>>).n
      fc     == parseFuncCall(toks)
      r      == evalFunc(fc.name, fc.args, vs)
  IN  IF isIdx /\ ~IsNull(s)
      THEN Arr([i \in 1..N |-> IF i - 1 >= offset THEN s.s[i - offset] ELSE NaN])
      ELSE IF fc.ok /\ ~IsNull(r) THEN r
      ELSE IF Len(toks) = 1 /\ IsStringToken(toks[1]) THEN Str(textOf(toks[1]))
      ELSE IF ~IsNaN(parseFloat(toks)) THEN Num(parseFloat(toks))
      ELSE IF toks = <<"true">> THEN Bool(TRUE)
      ELSE IF toks = <<"false">> THEN Bool(FALSE)
      ELSE IF Len(toks) = 1 /\ toks[1] \in DOMAIN vs THEN vs[toks[1]]
      ELSE Null

\* the built-ins the scripts call; every other name is the `default` case
evalFunc(name, args, vs) ==
  LET fn   == IF Len(name) = 1 THEN name[1] ELSE ""
      src  == resolveNumSrc(args, 1, vs)
      len  == resolveLen(args, 2, vs)
      b    == resolveNumSrc(args, 2, vs)
      abs0 == IF args = << >> THEN Thrown ELSE evalExprAsNumSeries(args[1], vs)
  IN  CASE fn \in {"ta.sma", "ta.ema"} ->
             IF IsThrown(src) \/ len.threw THEN Thrown
             ELSE IF IsNull(src) THEN Null
             ELSE Arr(IF fn = "ta.sma" THEN calcSMA(src.s, len.len) ELSE calcEMA(src.s, len.len))
        [] fn \in {"ta.crossover", "ta.crossunder"} ->
             IF IsThrown(src) \/ IsThrown(b) THEN Thrown
             ELSE IF IsNull(src) \/ IsNull(b) THEN Null
             ELSE Arr([i \in 1..N |->
                         B(/\ i > 1
                           /\ IF fn = "ta.crossover"
                              THEN RLt(src.s[i - 1], b.s[i - 1]) /\ RGe(src.s[i], b.s[i])
                              ELSE RGt(src.s[i - 1], b.s[i - 1]) /\ RLe(src.s[i], b.s[i]))])
        [] fn = "nz" ->
             IF IsThrown(src) THEN Thrown
             ELSE IF IsNull(src) THEN Null
             ELSE LET fallback == IF Len(args) >= 2 /\ args[2] # << >> THEN parseFloat(args[2]) ELSE R(0)
                  IN  Arr([i \in 1..N |-> IF IsNaN(src.s[i]) THEN fallback ELSE src.s[i]])
        [] fn = "math.abs" ->
             IF abs0.t \in {"throw", "null"} THEN abs0
             ELSE Arr([i \in 1..N |-> IF IsNaN(abs0.s[i]) THEN NaN
                                      ELSE [n |-> Abs(abs0.s[i].n), d |-> abs0.s[i].d]])
        [] OTHER -> Null

\* ---- the script runtime: execute --------------------------------------------------
\* `__cond_${this.signals.length}`
CondNames == <<"__cond_0", "__cond_1", "__cond_2", "__cond_3", "__cond_4", "__cond_5">>

NoRuntime == [vars |-> EmptyObj, signals |-> << >>, threw |-> FALSE]

\* new PineRuntime(ohlcv, {}): the bars of the model carry the close only
NewRuntime ==
  [vars    |-> Assign(Assign(Assign(EmptyObj, "close", Arr(Prices)), "true", Bool(TRUE)),
                      "false", Bool(FALSE)),
   signals |-> << >>,
   threw   |-> FALSE]

\* /strategy\.(entry|close|exit)\s*\(/.test(line)
isStrategyCall(toks) ==
  \E i \in 1..(Len(toks) - 1) :
    toks[i] \in {"strategy.entry", "strategy.close", "strategy.exit"} /\ toks[i + 1] = "("

StrategyNames == {"strategy.entry", "strategy.close", "strategy.exit", "strategy.close_all",
                  "strategy.long", "strategy.short"}

\* parseStrategyCall(line, condVarName): the runtime with the signal recorded
parseStrategyCall(r, toks, condVarName) ==
  LET from == {i \in 1..Len(toks) : toks[i] \in StrategyNames}
      call == IF from = {} THEN toks
              ELSE SubSeq(toks, CHOOSE x \in from : \A y \in from : x <= y, Len(toks))
      fc   == parseFuncCall(call)
      fn   == IF Len(fc.name) = 1 THEN fc.name[1] ELSE ""
      id   == IF Len(fc.args) >= 1 /\ Len(fc.args[1]) = 1 /\ IsStringToken(fc.args[1][1])
              THEN textOf(fc.args[1][1]) ELSE ""
      push(sig) == [r EXCEPT !.signals = Append(@, sig)]
  IN  IF ~fc.ok THEN r
      ELSE CASE fn = "strategy.entry" ->
                  push([type |-> IF Len(fc.args) >= 2 /\ \E i \in 1..Len(fc.args[2]) :
                                                            fc.args[2][i] = "strategy.short"
                                 THEN "short" ELSE "long",
                        condName |-> condVarName, entryId |-> id])
             [] fn = "strategy.close" ->
                  push([type |-> IF id = "Short" THEN "close_short" ELSE "close_long",
                        condName |-> condVarName, entryId |-> ""])
             [] fn \in {"strategy.exit", "strategy.close_all"} ->
                  push([type |-> "close_all", condName |-> condVarName, entryId |-> ""])
             [] OTHER -> r

\* the condition of an `if` line: `if`, a final `then`, `:` or `{` and the
\* parentheses around the whole expression removed
condExprOf(toks) ==
  LET a == Tail(toks)
      b == IF a # << >> /\ a[Len(a)] = "then" THEN SubSeq(a, 1, Len(a) - 1) ELSE a
      c == IF b # << >> /\ b[Len(b)] \in {":", "{"} THEN SubSeq(b, 1, Len(b) - 1) ELSE b
      allWrapped == /\ c # << >> /\ c[1] = "(" /\ c[Len(c)] = ")"
                    /\ \A ci \in 1..(Len(c) - 1) : depthBefore(c, ci + 1) # 0
  IN  IF allWrapped THEN SubSeq(c, 2, Len(c) - 1) ELSE c

\* the index of the line that ends the block of the `if` at line i: the first
\* non-blank line after it indented no deeper; Len(lines) + 1 when there is none
blockEnd(lines, i) ==
  LET ends == {j \in (i + 1)..Len(lines) :
                 lines[j].toks # << >> /\ lines[j].indent <= lines[i].indent}
  IN  IF ends = {} THEN Len(lines) + 1 ELSE CHOOSE x \in ends : \A y \in ends : x <= y

\* `for (const bline of block)`: the strategy calls of lines from..to recorded
RECURSIVE blockCalls(_, _, _, _, _)
blockCalls(r, lines, from, to, condVarName) ==
  IF from > to THEN r
  ELSE blockCalls(IF isStrategyCall(lines[from].toks)
                  THEN parseStrategyCall(r, lines[from].toks, condVarName) ELSE r,
                  lines, from + 1, to, condVarName)

\* the tokens that are not \w+: brackets, operators, dotted names, quoted strings
NonWords ==
  {"(", ")", "[", "]", ",", "?", ":", "=", ":=", "||", "&&", "!", ">=", "<=", "!=", "==", ">", "<",
   "+", "-", "*", "/", "ta.sma", "ta.ema", "ta.crossover", "ta.crossunder", "math.abs",
   "input.int", "input.float"}
    \cup StrategyNames \cup {StringTokens[k] : k \in 1..Len(StringTokens)}

\* /^(?:var\s+)?(\w+)\s*(?::=|=)\s*(.+)$/
assignMatch(toks) ==
  LET t == IF toks # << >> /\ toks[1] = "var" THEN Tail(toks) ELSE toks
  IN  IF Len(t) >= 3 /\ t[2] \in {"=", ":="} /\ t[1] \notin NonWords
      THEN [ok |-> TRUE, varName |-> t[1], rhs |-> SubSeq(t, 3, Len(t))]
      ELSE [ok |-> FALSE, varName |-> "", rhs |-> << >>]

\* execute(code) from line i on; an exception leaves the runtime as it was
\* when the line that threw was reached (threw is the caller's catch)
RECURSIVE execute(_, _, _)
execute(lines, i, r) ==
  IF i > Len(lines) THEN r
  ELSE LET line == lines[i].toks
           am   == assignMatch(line)
           val  == evalExpr(am.rhs, r.vars)
           condVarName == CondNames[Len(r.signals) + 1]
           condVal     == evalExpr(condExprOf(line), r.vars)
           end         == blockEnd(lines, i)
       IN  IF line = << >> THEN execute(lines, i + 1, r)
           ELSE IF isStrategyCall(line)
                THEN execute(lines, i + 1, parseStrategyCall(r, line, "true"))
           ELSE IF line[1] = "if"
                THEN IF IsThrown(condVal) THEN [r EXCEPT !.threw = TRUE]
                     ELSE execute(lines, end,
                            blockCalls([r EXCEPT !.vars = Assign(@, condVarName,
                                                   IF IsNull(condVal) THEN Arr(Fill(B(FALSE))) ELSE condVal)],
                                       lines, i + 1, end - 1, condVarName))
           ELSE IF am.ok /\ am.rhs[1] \notin {"input", "input.int", "input.float", "strategy"}
                THEN IF IsThrown(val) THEN [r EXCEPT !.threw = TRUE]
                     ELSE execute(lines, i + 1,
                                  IF IsNull(val) THEN r ELSE [r EXCEPT !.vars = Assign(@, am.varName, val)])
           ELSE execute(lines, i + 1, r)

\* runtime.getCondAt(condVarName, idx) on the runtime's variables
condAt(r, condVarName, idx) ==
  IF condVarName \notin DOMAIN r.vars THEN FALSE
  ELSE LET v == r.vars[condVarName]
       IN  IF v.t = "array" THEN idx >= 0 /\ idx < Len(v.s) /\ Truthy(v.s[idx + 1])
           ELSE IF v.t = "str" THEN v.str # ""
           ELSE Truthy(v.s[1])

\* no script is loaded
RtIdle == code = << >> /\ rt = NoRuntime

\* ---- the run ----------------------------------------------------------------
BtInit ==
  /\ strategy \in Strategies
  /\ closes \in SeriesOf(strategy)
  /\ prm \in ParamChoices(strategy)
  /\ \E script \in (IF strategy = "pine" THEN Scripts ELSE {<< >>}) :
       /\ sigs  = [k \in 1..Len(script) |->
                     [type |-> script[k][1], condName |-> IF script[k][2] = "true" THEN 0 ELSE k]]
       /\ conds = [k \in 1..Len(script) |-> condSeries(script[k][2], closes)]
  /\ ind = Indicators(strategy, prm, [x \in 1..Len(closes) |-> R(closes[x])])
  /\ pc = "loop"
  /\ bar = LoopStart(strategy, prm)
  /\ sigIdx = 0
  /\ position = NoPos
  /\ trades = << >>
  /\ equity = R(100)
  /\ equityCurve = << R(100) >>
  /\ opened = 0
  /\ result = NoResult
  /\ assetConfig = DefaultAsset
  /\ OptIdle
  /\ IndIdle
  /\ RtIdle

Commit(st) ==
  /\ position' = st.position
  /\ trades'   = st.trades
  /\ equity'   = st.equity
  /\ opened'   = st.opened

\* a loop that records a bar's equity only when it differs from the last entry
pushEquityOnChange(curve, eq) ==
  IF eq = curve[Len(curve)] THEN curve ELSE Append(curve, eq)

\* equityCurve.push(equity)
pushEquity(curve, eq) == Append(curve, eq)

\* one pass of `for (const sig of runtime.signals)` at bar i
PineSignal ==
  /\ pc = "loop" /\ strategy = "pine" /\ bar < N /\ sigIdx < Len(sigs)
  /\ LET sig == sigs[sigIdx + 1]
     IN  IF getCondAt(sig.condName, bar)
         THEN Commit(applySignal(Cur, sig.type, bar, Close(bar)))
         ELSE UNCHANGED <<position, trades, equity, opened>>
  /\ sigIdx' = sigIdx + 1
  /\ UNCHANGED <<assetConfig, strategy, closes, prm, ind, sigs, conds, pc, bar, equityCurve, result>>
  /\ UNCHANGED <<optVars, pineVars, indVars>>

\* equityCurve.push(equity) closing bar i of the DSL loop
PineEndBar ==
  /\ pc = "loop" /\ strategy = "pine" /\ bar < N /\ sigIdx = Len(sigs)
  /\ equityCurve' = pushEquity(equityCurve, equity)
  /\ bar' = bar + 1
  /\ sigIdx' = 0
  /\ UNCHANGED <<assetConfig, strategy, closes, prm, ind, sigs, conds, pc, position, trades, equity, opened, result>>
  /\ UNCHANGED <<optVars, pineVars, indVars>>

presetBar(st, i) ==
  CASE strategy = "dual_ma"   -> dualMABar(st, i)
    [] strategy = "triple_ma" -> tripleMABar(st, i)
    [] strategy = "rsi"       -> rsiBar(st, i)
    [] strategy = "macd"      -> macdBar(st, i)
    [] strategy = "bollinger" -> bollingerBar(st, i)
    [] OTHER                  -> st

\* one iteration of a preset's loop
PresetBar ==
  /\ pc = "loop" /\ strategy # "pine" /\ bar < N
  /\ Commit(presetBar(Cur, bar))
  /\ equityCurve' = pushEquity(equityCurve, equity')
  /\ bar' = bar + 1
  /\ UNCHANGED <<assetConfig, strategy, closes, prm, ind, sigs, conds, pc, sigIdx, result>>
  /\ UNCHANGED <<optVars, pineVars, indVars>>

\* after the loop: close any open position at the last bar, compute the metrics
\* a run that returns without the end-of-data close
forceCloseMissing(st) == st

forceClose(st) ==
  IF st.position.open
  THEN Realize(st, IF strategy = "pine"
                   THEN makeClosedTrade(st.position, LastIdx(N), Close(LastIdx(N)))
                   ELSE closeTrade(st.position, LastIdx(N), Close(LastIdx(N))))
  ELSE st

Finish ==
  /\ pc = "loop" /\ bar >= N
  /\ Commit(forceClose(Cur))
  /\ result' = calcMetrics(trades', equityCurve)
  /\ pc' = "done"
  /\ UNCHANGED <<assetConfig, strategy, closes, prm, ind, sigs, conds, bar, sigIdx, equityCurve>>
  /\ UNCHANGED <<optVars, pineVars, indVars>>

BtNext == PineSignal \/ PineEndBar \/ PresetBar \/ Finish

vars == <<btVars, optVars, pineVars, indVars>>

Init == BtInit
Next == BtNext
Spec == Init /\ [][Next]_vars

\* ---- the DSL path from the script text: runPineScriptBacktest ------------------
Line(indent, toks) == [indent |-> indent, toks |-> toks]

\* lines that cannot be evaluated: an unknown identifier, a comparison with no
\* right operand, ta.sma called without its length
BadLines ==
  {<<"x", "=", "foo">>,
   <<"x", "=", "close", ">">>,
   <<"x", "=", "ta.sma", "(", "close", ")">>}

\* m = ta.sma(close, MaxPeriod), with one more line before or after it
Prelude(bad, at) ==
  LET sma == Line(0, <<"m", "=", "ta.sma", "(", "close", ",", NumberTokens[MaxPeriod + 1], ")">>)
  IN  IF bad = << >> THEN <<sma>>
      ELSE IF at = 1 THEN <<Line(0, bad), sma>>
      ELSE <<sma, Line(0, bad)>>

\* conditions comparing the close with the average, NaN while it warms up
WarmupConds ==
  {<<"close", op, "m">> : op \in {">", "<", ">=", "<=", "==", "!="}}
  \cup {<<"not", "close", ">", "m">>, <<"(", "close", ">", "m", ")">>}

Up   == <<"close", ">", "close", "[", "1", "]">>
Down == <<"close", "<", "close", "[", "1", "]">>

EntryLong  == <<"strategy.entry", "(", "'Long'", ",", "strategy.long", ")">>
EntryShort == <<"strategy.entry", "(", "'Short'", ",", "strategy.short", ")">>
CloseLong  == <<"strategy.close", "(", "'Long'", ")">>

Shapes == {"one", "two", "nested", "inline", "empty"}

Body(shape, c) ==
  CASE shape = "one" ->
         <<Line(0, <<"if">> \o c), Line(4, EntryLong),
           Line(0, <<"if">> \o Down), Line(4, CloseLong)>>
    [] shape = "two" ->
         <<Line(0, <<"if">> \o c), Line(4, EntryLong), Line(0, << >>),
           Line(0, <<"if">> \o Up), Line(4, EntryShort), Line(4, <<"y", "=", "1">>)>>
    [] shape = "nested" ->
         <<Line(0, <<"if">> \o Up), Line(4, <<"if">> \o c), Line(8, EntryLong),
           Line(0, <<"if">> \o Down), Line(4, CloseLong)>>
    [] shape = "inline" ->
         <<Line(0, EntryLong), Line(0, <<"if">> \o c), Line(4, CloseLong)>>
    [] OTHER ->
         <<Line(0, <<"if">> \o c), Line(4, <<"y", "=", "1">>),
           Line(0, <<"if">> \o Up), Line(4, EntryShort)>>

PineScripts ==
  {Prelude(bad, at) \o Body(shape, <<"close", ">", "m">>) :
     bad \in BadLines, at \in 1..2, shape \in Shapes}
  \cup {Prelude(<< >>, 1) \o Body(shape, c) : shape \in Shapes, c \in WarmupConds}

\* bar series long enough for the average to warm up inside the loop
PineSeries == {s \in Series : Len(s) = MaxBars - 1}

PineInit ==
  /\ strategy = "pine"
  /\ closes \in PineSeries
  /\ code \in PineScripts
  /\ rt = NewRuntime
  /\ prm = ZeroPrm
  /\ ind = [a |-> << >>, b |-> << >>, c |-> << >>]
  /\ sigs = << >> /\ conds = << >>
  /\ pc = "new" /\ bar = 1 /\ sigIdx = 0
  /\ position = NoPos /\ trades = << >> /\ equity = R(100)
  /\ equityCurve = << R(100) >> /\ opened = 0 /\ result = NoResult
  /\ assetConfig = DefaultAsset
  /\ OptIdle
  /\ IndIdle

\* the position of a condition name among CondNames, 0 for 'true'
condIndex(name) ==
  IF name = "true" THEN 0 ELSE CHOOSE k \in 1..Len(CondNames) : CondNames[k] = name

\* try { runtime.execute(code) } catch { }: the signals and their guards as
\* the bar loop reads them
Execute ==
  /\ pc = "new"
  /\ rt' = execute(code, 1, rt)
  /\ sigs' = [k \in 1..Len(rt'.signals) |->
                [type |-> rt'.signals[k].type, condName |-> condIndex(rt'.signals[k].condName)]]
  /\ conds' = [k \in 1..Len(CondNames) |-> [x \in 1..N |-> condAt(rt', CondNames[k], x - 1)]]
  /\ pc' = "loop"
  /\ UNCHANGED <<assetConfig, strategy, closes, prm, ind, bar, sigIdx, position, trades, equity,
                 equityCurve, opened, result, code>>
  /\ UNCHANGED <<optVars, indVars>>

PineNext == Execute \/ PineSignal \/ PineEndBar \/ Finish

SpecPine == PineInit /\ [][PineNext]_vars

\* ---- scripts that assign an arithmetic expression ----------------------------------
\* operands: the close, its two-bar average m, a number
ExprOperands == {"close", "m", "2"}

\* x = a op b op c
ChainExprs ==
  {<<a, op, b, op, c>> : a \in ExprOperands, b \in ExprOperands, c \in ExprOperands, op \in {"-", "/"}}

\* x = (a op b)
WrappedExprs ==
  {<<"(", a, op, b, ")">> : a \in ExprOperands, b \in ExprOperands, op \in {"+", "-"}}

\* x = (a op1 b) op (c op2 d)
ProductExprs ==
  {<<"(", a, op1, "2", ")", op, "(", c, op2, "m", ")">> :
     a \in {"close", "m"}, c \in ExprOperands, op1 \in {"+", "-"}, op2 \in {"+", "-"}, op \in {"*", "-"}}
  \cup {<<"(", "close", op1, "m", ")", op, "(", c, op2, "2", ")">> :
          c \in ExprOperands, op1 \in {"+", "-"}, op2 \in {"+", "-"}, op \in {"*", "/"}}

ExprScripts ==
  {<<Line(0, <<"m", "=", "ta.sma", "(", "close", ",", "2", ")">>), Line(0, <<"x", "=">> \o e)>> :
     e \in ChainExprs \cup WrappedExprs \cup ProductExprs}

ExprInit ==
  /\ strategy = "pine"
  /\ closes \in PineSeries
  /\ code \in ExprScripts
  /\ rt = NewRuntime
  /\ prm = ZeroPrm
  /\ ind = [a |-> << >>, b |-> << >>, c |-> << >>]
  /\ sigs = << >> /\ conds = << >>
  /\ pc = "new" /\ bar = 1 /\ sigIdx = 0
  /\ position = NoPos /\ trades = << >> /\ equity = R(100)
  /\ equityCurve = << R(100) >> /\ opened = 0 /\ result = NoResult
  /\ assetConfig = DefaultAsset
  /\ OptIdle
  /\ IndIdle

\* the script is executed; it records no signal, so the bar loop only pushes equity
ExprNext == Execute \/ PineEndBar \/ Finish

SpecExpr == ExprInit /\ [][ExprNext]_vars

\* ---- scripts with an else branch ---------------------------------------------------
\* if <c>            if <c>               if <c>
\*     <first>           <first>              <first>
\* else              else if <d>          else <second>
\*     <second>          <second>
ElseBody(shape, c, d, first, second) ==
  CASE shape = "else" ->
         <<Line(0, <<"if">> \o c), Line(4, first), Line(0, <<"else">>), Line(4, second)>>
    [] shape = "else if" ->
         <<Line(0, <<"if">> \o c), Line(4, first), Line(0, <<"else", "if">> \o d), Line(4, second)>>
    [] OTHER ->
         <<Line(0, <<"if">> \o c), Line(4, first), Line(0, <<"else">> \o second)>>

ElseScripts ==
  {ElseBody(shape, c, d, first, second) :
     shape \in {"else", "else if", "else inline"},
     c \in {Up, Down}, d \in {Up, Down},
     first \in {EntryLong, EntryShort}, second \in {EntryLong, EntryShort, CloseLong}}

ElseInit ==
  /\ strategy = "pine"
  /\ closes \in PineSeries
  /\ code \in ElseScripts
  /\ rt = NewRuntime
  /\ prm = ZeroPrm
  /\ ind = [a |-> << >>, b |-> << >>, c |-> << >>]
  /\ sigs = << >> /\ conds = << >>
  /\ pc = "new" /\ bar = 1 /\ sigIdx = 0
  /\ position = NoPos /\ trades = << >> /\ equity = R(100)
  /\ equityCurve = << R(100) >> /\ opened = 0 /\ result = NoResult
  /\ assetConfig = DefaultAsset
  /\ OptIdle
  /\ IndIdle

SpecElse == ElseInit /\ [][PineNext]_vars

\* ---- the dual-MA preset on a rising market -------------------------------------
\* backtestDualMA(ohlcv, 3, 5, 'SMA') on 30 bars
Uptrend == [bars |-> 30, fast |-> 3, slow |-> 5, maType |-> "SMA"]

\* strictly increasing closes: from a, rising by d a bar, by 2d after bar j
UptrendSeries ==
  {[x \in 1..Uptrend.bars |-> a + d * (x - 1) + (IF x > j THEN d ELSE 0)] :
     a \in 1..MaxPrice, d \in 1..MaxStep, j \in 0..Uptrend.bars}

UptrendPrm == [ZeroPrm EXCEPT !.fast = Uptrend.fast, !.slow = Uptrend.slow, !.maType = Uptrend.maType]

UptrendInit ==
  /\ strategy = "dual_ma"
  /\ closes \in UptrendSeries
  /\ prm = UptrendPrm
  /\ sigs = << >> /\ conds = << >>
  /\ ind = Indicators(strategy, prm, [x \in 1..Len(closes) |-> R(closes[x])])
  /\ pc = "loop"
  /\ bar = LoopStart(strategy, prm)
  /\ sigIdx = 0
  /\ position = NoPos
  /\ trades = << >>
  /\ equity = R(100)
  /\ equityCurve = << R(100) >> /\ opened = 0 /\ result = NoResult
  /\ assetConfig = DefaultAsset
  /\ OptIdle
  /\ IndIdle
  /\ RtIdle

UptrendNext == PresetBar \/ Finish

SpecUptrend == UptrendInit /\ [][UptrendNext]_vars

\* ---- runs on every kind of asset -------------------------------------------------
\* assetConfig: percentage-based ('crypto') or point-value ('futures') assets
AssetConfigs == {[type |-> t, pointValue |-> v] : t \in {"crypto", "futures"}, v \in 1..MaxPointValue}

\* runPineScriptBacktest and backtestDualMA called with an assetConfig
AssetInit ==
  /\ strategy \in {"pine", "dual_ma"}
  /\ closes \in PineSeries
  /\ prm \in ParamChoices(strategy)
  /\ \E script \in (IF strategy = "pine" THEN Scripts ELSE {<< >>}) :
       /\ sigs  = [k \in 1..Len(script) |->
                     [type |-> script[k][1], condName |-> IF script[k][2] = "true" THEN 0 ELSE k]]
       /\ conds = [k \in 1..Len(script) |-> condSeries(script[k][2], closes)]
  /\ ind = Indicators(strategy, prm, [x \in 1..Len(closes) |-> R(closes[x])])
  /\ pc = "loop"
  /\ bar = LoopStart(strategy, prm)
  /\ sigIdx = 0
  /\ position = NoPos
  /\ trades = << >>
  /\ equity = R(100)
  /\ equityCurve = << R(100) >> /\ opened = 0 /\ result = NoResult
  /\ assetConfig \in AssetConfigs
  /\ OptIdle
  /\ IndIdle
  /\ RtIdle

SpecAsset == AssetInit /\ [][BtNext]_vars


\* ---- the optimizer: parameter maps -------------------------------------------
\* A Record<string, number> is a function from the names it defines to their
\* values (fixedParams holds numbers only: its string and boolean entries are
\* read by none of the modelled code).
\* { ...a, ...b }
Spread(a, b) == [x \in (DOMAIN a) \cup (DOMAIN b) |-> IF x \in DOMAIN b THEN b[x] ELSE a[x]]

\* a ?? b ?? ... over the names of `aliases`: the first one the map defines
RECURSIVE Coalesce(_, _)
Coalesce(obj, aliases) ==
  IF aliases = << >> THEN [def |-> FALSE, v |-> 0]
  ELSE IF Head(aliases) \in DOMAIN obj THEN [def |-> TRUE, v |-> obj[Head(aliases)]]
  ELSE Coalesce(obj, Tail(aliases))

\* resolveParam(params, ...aliases) ?? dflt
resolveParam(obj, aliases, dflt) ==
  LET r == Coalesce(obj, aliases) IN IF r.def THEN r.v ELSE dflt

\* ---- program constants of runBacktest and optimize -----------------------------
DefaultFast       == 9
DefaultSlow       == 21
DefaultMid        == 21
DefaultTripleSlow == 55
DefaultMacdFast   == 12
DefaultMacdSlow   == 26
DEADLINE_CHECK_INTERVAL == 50

\* the periods runBacktest passes to the preset it dispatches to
Resolved(strategyType, obj) ==
  CASE strategyType = "triple_ma" ->
         [fast |-> resolveParam(obj, <<"fast_len", "fastLength", "fast", "fastPeriod", "fast_period">>, DefaultFast),
          mid  |-> resolveParam(obj, <<"mid_len", "midLength", "mid", "midPeriod", "mid_period">>, DefaultMid),
          slow |-> resolveParam(obj, <<"slow_len", "slowLength", "slow", "slowPeriod", "slow_period">>, DefaultTripleSlow)]
    [] strategyType = "macd" ->
         [fast |-> resolveParam(obj, <<"fastLength", "fast_len", "fast", "macdFast", "fast_period">>, DefaultMacdFast),
          mid  |-> 0,
          slow |-> resolveParam(obj, <<"slowLength", "slow_len", "slow", "macdSlow", "slow_period">>, DefaultMacdSlow)]
    [] OTHER ->
         [fast |-> resolveParam(obj, <<"fastLength", "fast_len", "fast", "fastPeriod", "fast_period">>, DefaultFast),
          mid  |-> 0,
          slow |-> resolveParam(obj, <<"slowLength", "slow_len", "slow", "slowPeriod", "slow_period">>, DefaultSlow)]

DefaultRsiPeriod  == 14
DefaultSignal     == 9

\* the `params` property of the result runBacktest returns: the values it
\* resolved, under the names of the preset it dispatched to
presetParams(strategyType, obj) ==
  LET p   == Resolved(strategyType, obj)
      maT == resolveParam(obj, <<"maType", "ma_type", "type">>, "EMA")
  IN  CASE strategyType = "triple_ma" ->
             Assign(Assign(Assign(Assign(EmptyObj, "fastLength", p.fast), "midLength", p.mid),
                           "slowLength", p.slow), "maType", maT)
        [] strategyType = "rsi" ->
             Assign(Assign(Assign(EmptyObj, "rsiPeriod",
                      resolveParam(obj, <<"rsiPeriod", "rsi_period", "period", "rsiLength", "rsi_length">>,
                                   DefaultRsiPeriod)),
                      "oversold",
                      resolveParam(obj, <<"oversold", "over_sold", "ob_low", "rsi_low">>, DefaultOversold)),
                      "overbought",
                      resolveParam(obj, <<"overbought", "over_bought", "ob_high", "rsi_high">>, DefaultOverbought))
        [] strategyType = "macd" ->
             Assign(Assign(Assign(EmptyObj, "fastLength", p.fast), "slowLength", p.slow),
                    "signalLength",
                    resolveParam(obj, <<"signalLength", "signal_len", "signal", "macdSignal", "signal_period">>,
                                 DefaultSignal))
        [] OTHER ->
             Assign(Assign(Assign(EmptyObj, "fastLength", p.fast), "slowLength", p.slow), "maType", maT)

\* the validity filters of optimize: TRUE when the combination is skipped
filterSkips(strategyType, obj) ==
  \/ /\ strategyType \in {"dual_ma", "macd", ""}
     /\ LET fast == Coalesce(obj, <<"fastLength", "fast_len", "fast", "fastPeriod", "macdFast">>)
            slow == Coalesce(obj, <<"slowLength", "slow_len", "slow", "slowPeriod", "macdSlow">>)
        IN  fast.def /\ slow.def /\ fast.v >= slow.v
  \/ /\ strategyType = "triple_ma"
     /\ LET fast == Coalesce(obj, <<"fast_len", "fastLength", "fast", "fastPeriod">>)
            mid  == Coalesce(obj, <<"mid_len", "midLength", "mid", "midPeriod">>)
            slow == Coalesce(obj, <<"slow_len", "slowLength", "slow", "slowPeriod">>)
        IN  \/ fast.def /\ mid.def /\ fast.v >= mid.v
            \/ mid.def /\ slow.def /\ mid.v >= slow.v

\* ---- the optimizer: axes and the generator -------------------------------------
\* the values of one enabled range: min, min + step, ... while <= max (whole
\* numbers, on which parseFloat(v.toFixed(8)) and the 1e-10 slack change nothing)
valuesOf(r) ==
  LET step == IF r.step > 0 THEN r.step ELSE 1
      n    == IF r.min > r.max THEN 0 ELSE ((r.max - r.min) \div step) + 1
  IN  [k \in 1..n |-> r.min + (k - 1) * step]

\* config.paramRanges.filter(r => r.enabled)
RECURSIVE enabledOf(_)
enabledOf(ranges) ==
  IF ranges = << >> THEN << >>
  ELSE IF Head(ranges).enabled THEN <<Head(ranges)>> \o enabledOf(Tail(ranges))
  ELSE enabledOf(Tail(ranges))

axesOf(ranges) ==
  LET enabled == enabledOf(ranges)
  IN  [k \in 1..Len(enabled) |-> [name |-> enabled[k].varName, values |-> valuesOf(enabled[k])]]

\* axes.reduce((acc, a) => acc * a.values.length, 1)
RECURSIVE totalOf(_)
totalOf(ax) == IF ax = << >> THEN 1 ELSE Len(Head(ax).values) * totalOf(Tail(ax))

useSampling == totalOf(axes) > config.maxCombinations

\* the object the generator builds from one value index per axis, in axis
\* order: current[axes[idx].name] = v
RECURSIVE comboOf(_, _, _)
comboOf(ax, idxs, k) ==
  IF k = 0 THEN EmptyObj
  ELSE Assign(comboOf(ax, idxs, k - 1), ax[k].name, ax[k].values[idxs[k]])

\* JSON.stringify(combo): the properties in creation order, each name once
RECURSIVE stringify(_, _, _)
stringify(ax, obj, k) ==
  IF k = 0 THEN << >>
  ELSE LET before == stringify(ax, obj, k - 1)
       IN  IF \E j \in 1..(k - 1) : ax[j].name = ax[k].name THEN before
           ELSE Append(before, <<ax[k].name, obj[ax[k].name]>>)

\* seen.has(key) answering no whatever was added
seenHasNever(set, key) == FALSE

\* seen.has(key)
seenHas(set, key) == key \in set

\* the nested `for (const v of axes[idx].values)` loops of recurse: the first
\* index tuple, << >> when some axis has no value
gridFirst(ax) ==
  IF \E k \in 1..Len(ax) : Len(ax[k].values) = 0 THEN << >>
  ELSE [k \in 1..Len(ax) |-> 1]

\* gridNext with the first axis varying fastest
RECURSIVE gridNextFirstFastest(_, _, _)
gridNextFirstFastest(ax, idxs, k) ==
  LET j == Len(ax) + 1 - k
  IN  IF k = 0 THEN << >>
      ELSE IF idxs[j] < Len(ax[j].values) THEN [idxs EXCEPT ![j] = @ + 1]
      ELSE gridNextFirstFastest(ax, [idxs EXCEPT ![j] = 1], k - 1)

\* the index tuple after idxs: the innermost loop (axis k, the last) advances,
\* a finished loop restarts when the loop around it advances; << >> at the end
RECURSIVE gridNext(_, _, _)
gridNext(ax, idxs, k) ==
  IF k = 0 THEN << >>
  ELSE IF idxs[k] < Len(ax[k].values) THEN [idxs EXCEPT ![k] = @ + 1]
  ELSE gridNext(ax, [idxs EXCEPT ![k] = 1], k - 1)

\* ---- the optimizer: simulator runs and ranking ----------------------------------
RECURSIVE sumOver(_, _)
sumOver(obj, keys) ==
  IF keys = {} THEN 0
  ELSE LET k == CHOOSE x \in keys : TRUE IN obj[k] + sumOver(obj, keys \ {k})

\* runOne(params) on the run's fixed ohlcv: the simulator is a function of the
\* parameter map; config.outcomes picks which one ("all": every run trades,
\* "none": no run trades, "mixed": runs trade, do not trade or throw)
runOne(cfg, obj) ==
  LET h == sumOver(obj, DOMAIN obj)
      kind == CASE cfg.outcomes = "all"  -> "trades"
                [] cfg.outcomes = "none" -> "notrades"
                [] OTHER -> IF h % 3 = 0 THEN "trades" ELSE IF h % 3 = 1 THEN "notrades" ELSE "throws"
  IN  [threw       |-> kind = "throws",
       params      |-> presetParams(cfg.strategyType, obj),
       totalTrades |-> IF kind = "trades" THEN 1 + (h % 2) ELSE 0,
       score       |-> IF kind = "trades" THEN h % 4 ELSE 0]

\* result.params left as the simulator returned it
overwriteParamsMissing(res, obj) == res

\* result.params = params
overwriteParams(res, obj) == [res EXCEPT !.params = obj]

\* insertByScore for the comparator a[sortBy] - b[sortBy]
insertByScoreAscending(sorted, r) ==
  LET ahead == {k \in 0..Len(sorted) : \A j \in 1..k : sorted[j].score <= r.score}
      at    == CHOOSE k \in ahead : \A j \in ahead : j <= k
  IN  SubSeq(sorted, 1, at) \o <<r>> \o SubSeq(sorted, at + 1, Len(sorted))

\* one step of backResults.sort((a, b) => b[sortBy] - a[sortBy]): r goes
\* behind every result whose score is not smaller (the sort is stable)
insertByScore(sorted, r) ==
  LET ahead == {k \in 0..Len(sorted) : \A j \in 1..k : sorted[j].score >= r.score}
      at    == CHOOSE k \in ahead : \A j \in ahead : j <= k
  IN  SubSeq(sorted, 1, at) \o <<r>> \o SubSeq(sorted, at + 1, Len(sorted))

RECURSIVE sortByScore(_)
sortByScore(rs) ==
  IF rs = << >> THEN << >>
  ELSE insertByScore(sortByScore(SubSeq(rs, 1, Len(rs) - 1)), rs[Len(rs)])

\* backResults.slice(0, topN).map((result, i) => ({ rank: i + 1, result, score }))
ranked(rs, topN) ==
  [i \in 1..(IF Len(rs) < topN THEN Len(rs) ELSE topN) |->
     [rank |-> i, result |-> rs[i], score |-> rs[i].score]]

\* the guard looks at the clock at the first combination only
deadlineReachedOnlyAtStart(cfg, tested, t) ==
  cfg.deadlineMs # 0 /\ tested = 0 /\ t > cfg.deadlineMs

\* a deadline is set and the wall clock is past it
pastDeadline(cfg, t) == cfg.deadlineMs # 0 /\ t > cfg.deadlineMs

\* config.deadlineMs && testedCount % DEADLINE_CHECK_INTERVAL === 0 && Date.now() >= deadlineMs
deadlineReachedAtEqual(cfg, tested, t) ==
  cfg.deadlineMs # 0 /\ tested % DEADLINE_CHECK_INTERVAL = 0 /\ t >= cfg.deadlineMs

\* config.deadlineMs && testedCount % DEADLINE_CHECK_INTERVAL === 0 && Date.now() > config.deadlineMs
deadlineReached(cfg, tested, t) ==
  cfg.deadlineMs # 0 /\ tested % DEADLINE_CHECK_INTERVAL = 0 /\ t > cfg.deadlineMs

\* ---- the optimizer: configurations ----------------------------------------------
MaxVal    == 3      \* swept values of the filtered strategies are 1..MaxVal
SampleLen == 2      \* values per axis of the sampled configurations
MaxCap    == 3      \* maxCombinations of the sampled configurations is 1..MaxCap
BigLen    == 52     \* values of the long axis (more than DEADLINE_CHECK_INTERVAL)
MaxNow    == 3      \* the clock runs 1..MaxNow

Rng(name, lo, hi) == [varName |-> name, min |-> lo, max |-> hi, step |-> 1, enabled |-> TRUE]

PeriodNames == {"fastLength", "slowLength", "fast_period", "slow_period", "fastPeriod",
                "macdFast", "macdSlow", "fast_len", "mid_len", "slow_len"}

FilterRanges ==
  {<<Rng(a, 1, MaxVal)>> : a \in PeriodNames}
  \cup {<<Rng(q[1], 1, MaxVal), Rng(q[2], 1, MaxVal)>> :
          q \in {<<"fastLength", "slowLength">>, <<"slowLength", "fastLength">>,
                 <<"fast_period", "slow_period">>, <<"macdFast", "macdSlow">>,
                 <<"fastPeriod", "macdFast">>, <<"fast_len", "mid_len">>,
                 <<"mid_len", "slow_len">>, <<"slowLength", "slowLength">>}}
  \cup {<<[Rng("fastLength", 1, MaxVal) EXCEPT !.step = 2], Rng("slowLength", 2, MaxVal)>>,
        <<[Rng("fastLength", 1, MaxVal) EXCEPT !.step = 0]>>,
        <<[Rng("fastLength", 1, MaxVal) EXCEPT !.enabled = FALSE]>>,
        <<[Rng("fastLength", 1, MaxVal) EXCEPT !.enabled = FALSE], Rng("slowLength", 1, MaxVal)>>,
        <<Rng("fastLength", 2, 1)>>,
        <<Rng("fastLength", 1, 2), Rng("slowLength", MaxVal, 2)>>}

FixedChoices == {EmptyObj, Assign(EmptyObj, "slowLength", 2), Assign(EmptyObj, "mid_len", 2)}

BaseConfig ==
  [strategyType |-> "rsi", paramRanges |-> << >>, fixedParams |-> EmptyObj,
   maxCombinations |-> 1, topN |-> 2, deadlineMs |-> 0, outcomes |-> "all"]

FilterConfigs ==
  {[BaseConfig EXCEPT !.strategyType = s, !.paramRanges = rs, !.fixedParams = f,
                      !.maxCombinations = MaxVal * MaxVal] :
     s \in {"dual_ma", "macd", "triple_ma"}, rs \in FilterRanges, f \in FixedChoices}

SampleRanges ==
  {<<Rng("rsiPeriod", 1, SampleLen), Rng("oversold", 1, SampleLen)>>,
   <<Rng("rsiPeriod", 1, SampleLen), Rng("rsiPeriod", 1, SampleLen)>>,
   <<Rng("fastLength", 1, SampleLen), Rng("slowLength", 1, SampleLen)>>,
   <<Rng("rsiPeriod", 1, SampleLen + 1)>>}

SampleConfigs ==
  {[BaseConfig EXCEPT !.strategyType = s, !.paramRanges = rs, !.maxCombinations = cap] :
     s \in {"rsi", "dual_ma"}, rs \in SampleRanges, cap \in 1..MaxCap}

BigConfigs ==
  {[BaseConfig EXCEPT !.paramRanges = <<Rng("rsiPeriod", 1, BigLen)>>, !.maxCombinations = BigLen]}

Configs ==
  {[c EXCEPT !.deadlineMs = d, !.outcomes = o] :
     c \in FilterConfigs \cup SampleConfigs \cup BigConfigs,
     d \in {0, MaxNow - 1}, o \in {"all", "none", "mixed"}}

\* one value index per axis, as the sampling loop may draw them
AllIdx == UNION {[1..n -> 1..(SampleLen + 1)] : n \in 1..2}

\* ---- the optimizer: optimize ----------------------------------------------------
NoSummary == [results |-> << >>, testedCount |-> 0, timedOut |-> FALSE]

\* no backtest is running
BtIdle ==
  /\ strategy = "idle" /\ closes = << >> /\ prm = ZeroPrm
  /\ ind = [a |-> << >>, b |-> << >>, c |-> << >>]
  /\ sigs = << >> /\ conds = << >> /\ pc = "idle" /\ bar = 0 /\ sigIdx = 0
  /\ position = NoPos /\ trades = << >> /\ equity = R(100)
  /\ equityCurve = << R(100) >> /\ opened = 0 /\ result = NoResult
  /\ assetConfig = DefaultAsset

OptInit ==
  /\ BtIdle
  /\ IndIdle
  /\ RtIdle
  /\ config \in Configs
  /\ axes = << >> /\ pcO = "start" /\ gidx = << >> /\ seen = {} /\ count = 0
  /\ combo = EmptyObj /\ params = EmptyObj /\ testedCount = 0 /\ timedOut = FALSE
  /\ backResults = << >> /\ summary = NoSummary /\ now = 1
  /\ yielded = << >> /\ simulated = << >> /\ processed = 0
  /\ lateRuns = 0

\* enabled.length === 0: one run with the fixed parameters, returned as it is
RunFixed ==
  /\ pcO = "start" /\ enabledOf(config.paramRanges) = << >>
  /\ LET res == runOne(config, config.fixedParams)
     IN  /\ simulated' = Append(simulated, config.fixedParams)
         /\ lateRuns' = IF pastDeadline(config, now) THEN lateRuns + 1 ELSE lateRuns
         /\ IF res.threw
            THEN pcO' = "threw" /\ UNCHANGED summary
            ELSE /\ pcO' = "done"
                 /\ summary' = [results |-> <<[rank |-> 1, result |-> res, score |-> res.score]>>,
                                testedCount |-> 1, timedOut |-> FALSE]
  /\ UNCHANGED <<config, axes, gidx, seen, count, combo, params, testedCount, timedOut,
                 backResults, now, yielded, processed>>
  /\ UNCHANGED <<btVars, pineVars, indVars>>

\* the axes are built and the generator is created
BuildAxes ==
  /\ pcO = "start" /\ enabledOf(config.paramRanges) # << >>
  /\ axes' = axesOf(config.paramRanges)
  /\ gidx' = gridFirst(axes')
  /\ pcO' = "gen"
  /\ UNCHANGED <<config, seen, count, combo, params, testedCount, timedOut, backResults,
                 summary, now, yielded, simulated, processed, lateRuns>>
  /\ UNCHANGED <<btVars, pineVars, indVars>>

\* grid search: recurse yields { ...current } for the next index tuple
GridYield ==
  /\ pcO = "gen" /\ ~useSampling /\ gidx # << >>
  /\ combo' = comboOf(axes, gidx, Len(axes))
  /\ yielded' = Append(yielded, [idxs |-> gidx, combo |-> combo'])
  /\ gidx' = gridNext(axes, gidx, Len(axes))
  /\ pcO' = "visit"
  /\ UNCHANGED <<config, axes, seen, count, params, testedCount, timedOut, backResults,
                 summary, now, simulated, processed, lateRuns>>
  /\ UNCHANGED <<btVars, pineVars, indVars>>

\* sampling: one pass of `while (count < maxCombinations)` drawing idxs
Draw(idxs) ==
  /\ pcO = "gen" /\ useSampling /\ count < config.maxCombinations
  /\ Len(idxs) = Len(axes) /\ \A k \in 1..Len(axes) : idxs[k] <= Len(axes[k].values)
  /\ LET drawn == comboOf(axes, idxs, Len(axes))
         key   == stringify(axes, drawn, Len(axes))
     IN  /\ combo' = drawn
         /\ IF ~seenHas(seen, key)
            THEN /\ seen' = seen \cup {key}
                 /\ yielded' = Append(yielded, [idxs |-> idxs, combo |-> drawn])
                 /\ count' = count + 1
                 /\ pcO' = "visit"
            ELSE UNCHANGED <<seen, yielded, count, pcO>>
  /\ UNCHANGED <<config, axes, gidx, params, testedCount, timedOut, backResults,
                 summary, now, simulated, processed, lateRuns>>
  /\ UNCHANGED <<btVars, pineVars, indVars>>

\* the generator returns: the loops of recurse are over, or count reached the cap
GenReturn ==
  /\ pcO = "gen"
  /\ IF useSampling THEN count >= config.maxCombinations ELSE gidx = << >>
  /\ pcO' = "sort"
  /\ UNCHANGED <<config, axes, gidx, seen, count, combo, params, testedCount, timedOut,
                 backResults, summary, now, yielded, simulated, processed, lateRuns>>
  /\ UNCHANGED <<btVars, pineVars, indVars>>

\* the loop body up to the simulator call: deadline guard, params, validity filters
Visit ==
  /\ pcO = "visit"
  /\ IF deadlineReached(config, testedCount, now)
     THEN /\ timedOut' = TRUE
          /\ pcO' = "sort"
          /\ UNCHANGED <<params, simulated, processed, now, lateRuns>>
     ELSE /\ params' = Spread(config.fixedParams, combo)
          /\ UNCHANGED timedOut
          /\ IF filterSkips(config.strategyType, params')
             THEN /\ pcO' = "gen"
                  /\ processed' = processed + 1
                  /\ UNCHANGED <<simulated, now, lateRuns>>
             ELSE /\ pcO' = "run"
                  /\ simulated' = Append(simulated, params')
                  \* the clock may move on between the guard's Date.now() and the call
                  /\ now' \in {now, IF now < MaxNow THEN now + 1 ELSE now}
                  /\ lateRuns' = IF pastDeadline(config, now') THEN lateRuns + 1 ELSE lateRuns
                  /\ UNCHANGED processed
  /\ UNCHANGED <<config, axes, gidx, seen, count, combo, testedCount, backResults,
                 summary, yielded>>
  /\ UNCHANGED <<btVars, pineVars, indVars>>

\* runOne(params) returns or throws; result.params = params; testedCount++
RunEnd ==
  /\ pcO = "run"
  /\ LET res == overwriteParams(runOne(config, params), params)
     IN  backResults' = IF ~res.threw /\ res.totalTrades > 0
                        THEN Append(backResults, res) ELSE backResults
  /\ testedCount' = testedCount + 1
  /\ processed' = processed + 1
  /\ pcO' = "gen"
  /\ UNCHANGED <<config, axes, gidx, seen, count, combo, params, timedOut, summary, now,
                 yielded, simulated, lateRuns>>
  /\ UNCHANGED <<btVars, pineVars, indVars>>

\* backResults.sort(...) and the return
Return ==
  /\ pcO = "sort"
  /\ backResults' = sortByScore(backResults)
  /\ summary' = [results |-> ranked(backResults', config.topN),
                 testedCount |-> testedCount, timedOut |-> timedOut]
  /\ pcO' = "done"
  /\ UNCHANGED <<config, axes, gidx, seen, count, combo, params, testedCount, timedOut,
                 now, yielded, simulated, processed, lateRuns>>
  /\ UNCHANGED <<btVars, pineVars, indVars>>

\* the wall clock advances while optimize runs
Tick ==
  /\ pcO \in {"start", "gen", "visit", "run", "sort"} /\ now < MaxNow
  /\ now' = now + 1
  /\ UNCHANGED <<config, axes, pcO, gidx, seen, count, combo, params, testedCount, timedOut,
                 backResults, summary, yielded, simulated, processed, lateRuns>>
  /\ UNCHANGED <<btVars, pineVars, indVars>>

OptNext ==
  \/ RunFixed \/ BuildAxes \/ GridYield \/ (\E idxs \in AllIdx : Draw(idxs))
  \/ GenReturn \/ Visit \/ RunEnd \/ Return \/ Tick

SpecOpt == OptInit /\ [][OptNext]_vars

\* a draw that yields a combination not seen before
DrawFresh == \E idxs \in AllIdx : Draw(idxs) /\ count' = count + 1

\* Math.random() draws every tuple of indices with the same probability, each
\* draw independent of the others: the loop keeps drawing, and a combination
\* not seen before, possible again and again, is eventually drawn; every other
\* step is taken once it can be
\* the optimizations that sample
FairInit ==
  /\ OptInit
  /\ config.paramRanges \in SampleRanges
  /\ totalOf(axesOf(config.paramRanges)) > config.maxCombinations

FairNext ==
  \/ BuildAxes \/ (\E idxs \in AllIdx : Draw(idxs))
  \/ GenReturn \/ Visit \/ RunEnd \/ Return \/ Tick

FairOpt ==
  /\ FairInit /\ [][FairNext]_vars
  /\ WF_vars(BuildAxes \/ GenReturn \/ Visit \/ RunEnd \/ Return)
  /\ WF_vars(\E idxs \in AllIdx : Draw(idxs))
  /\ SF_vars(DrawFresh)

\* ---- the indicator functions called on their own ----------------------------------
IndicatorNames == {"calcSMA", "calcEMA", "calcWMA", "calcRSI"}

\* any series, the empty one included, and any period >= 1
IndInit ==
  /\ \E fn \in IndicatorNames, s \in Series \cup {<< >>}, period \in Periods :
       LET prices == [x \in 1..Len(s) |-> R(s[x])]
       IN  indCall = [fn |-> fn, prices |-> prices, given |-> prices, period |-> period,
                   result |-> << >>, pc |-> "call"]
  /\ BtIdle
  /\ OptIdle
  /\ RtIdle

\* the functions only read prices: the call ends with its result set
Returned(res) == [indCall EXCEPT !.result = res, !.pc = "returned"]

CallSMA ==
  /\ indCall.pc = "call" /\ indCall.fn = "calcSMA"
  /\ indCall' = Returned(calcSMA(indCall.prices, indCall.period))
  /\ UNCHANGED <<btVars, optVars, pineVars>>

CallEMA ==
  /\ indCall.pc = "call" /\ indCall.fn = "calcEMA"
  /\ indCall' = Returned(calcEMA(indCall.prices, indCall.period))
  /\ UNCHANGED <<btVars, optVars, pineVars>>

CallWMA ==
  /\ indCall.pc = "call" /\ indCall.fn = "calcWMA"
  /\ indCall' = Returned(calcWMA(indCall.prices, indCall.period))
  /\ UNCHANGED <<btVars, optVars, pineVars>>

CallRSI ==
  /\ indCall.pc = "call" /\ indCall.fn = "calcRSI"
  /\ indCall' = Returned(calcRSI(indCall.prices, indCall.period))
  /\ UNCHANGED <<btVars, optVars, pineVars>>

IndNext == CallSMA \/ CallEMA \/ CallWMA \/ CallRSI

SpecInd == IndInit /\ [][IndNext]_vars

\* ---- claims about the simulator ----------------------------------------------
RECURSIVE Compounded(_, _)
Compounded(trs, k) ==
  IF k = 0 THEN R(100)
  ELSE RMul(Compounded(trs, k - 1), RAdd(R(1), RDiv(trs[k].pnlPct, R(100))))

\* C1: in every returned result the last value of the equity curve equals 100
\* compounded by (1 + pnlPct/100) over every returned trade, the end-of-data
\* trade included.
C1_LastEquityCompoundsAllTrades ==
  pc = "done" => equityCurve[Len(equityCurve)] = Compounded(trades, Len(trades))

\* C2: trades never overlap: each trade has entryIndex <= exitIndex, each
\* trade enters no earlier than the previous one exited, and the open
\* position was entered no earlier than the last trade exited.
C2_TradesNeverOverlap ==
  /\ \A k \in 1..Len(trades) :
       /\ trades[k].entryIndex <= trades[k].exitIndex
       /\ k > 1 => trades[k].entryIndex >= trades[k - 1].exitIndex
  /\ (pc = "loop" /\ position.open /\ Len(trades) > 0)
       => position.entryIndex >= trades[Len(trades)].exitIndex

C2_Witness ==
  /\ pc = "done" /\ Len(trades) >= 2
  /\ trades[2].entryIndex = trades[1].exitIndex
  /\ trades[1].entryIndex < trades[1].exitIndex
  /\ trades[2].entryIndex < trades[2].exitIndex

\* C3: a position still open after the last bar becomes exactly one more
\* trade, exiting at the last bar index and the last close; every position
\* ever opened is a trade of the result.
C3_OpenPositionClosedAtEnd ==
  /\ pc = "loop" => opened = Len(trades) + (IF position.open THEN 1 ELSE 0)
  /\ pc = "done" =>
       /\ opened = Len(trades)
       /\ position.open =>
            LET t == trades[Len(trades)]
            IN  /\ t.exitIndex  = N - 1
                /\ t.exitPrice  = closes[N]
                /\ t.entryIndex = position.entryIndex
                /\ t.entryPrice = position.entryPrice
                /\ t.direction  = position.direction

C3_Witness ==
  /\ pc = "done" /\ position.open /\ Len(trades) >= 2
  /\ position.entryIndex < N - 1

\* C4: in the DSL path each signal whose guard is true at bar i >= 1 acts, in
\* script order, on the position the previous signal left: an entry closes an
\* open opposite position as a trade at the bar and opens the new position, a
\* close signal closes a matching position; a signal whose guard is false, an
\* entry in the direction already held and a close with nothing to close
\* change nothing; the end of the bar keeps the position and the trades.
C4_SignalEffect ==
  LET sig   == sigs[sigIdx + 1]
      price == closes[bar + 1]
      same  == position' = position /\ trades' = trades /\ equity' = equity
      closedHere ==
        /\ Len(trades') = Len(trades) + 1
        /\ SubSeq(trades', 1, Len(trades)) = trades
        /\ LET t == trades'[Len(trades')]
           IN  /\ t.entryIndex = position.entryIndex /\ t.exitIndex = bar
               /\ t.entryPrice = position.entryPrice /\ t.exitPrice = price
               /\ t.direction  = position.direction
               /\ t.pnlPct = Norm(100 * (IF t.direction = "long" THEN price - t.entryPrice
                                                                   ELSE t.entryPrice - price),
                                   t.entryPrice)
               /\ equity' = RMul(equity, IF t.direction = "long"
                                         THEN Norm(price, t.entryPrice)
                                         ELSE Norm(2 * t.entryPrice - price, t.entryPrice))
      enter(dir) ==
        IF position.open /\ position.direction = dir THEN same
        ELSE /\ position' = OpenPos(bar, price, dir)
             /\ IF position.open THEN closedHere ELSE trades' = trades /\ equity' = equity
      close(dirs) ==
        IF position.open /\ position.direction \in dirs
        THEN position' = NoPos /\ closedHere
        ELSE same
  IN  /\ bar >= 1
      /\ IF ~getCondAt(sig.condName, bar) THEN same
         ELSE CASE sig.type = "long"        -> enter("long")
                [] sig.type = "short"       -> enter("short")
                [] sig.type = "close_long"  -> close({"long"})
                [] sig.type = "close_short" -> close({"short"})
                [] sig.type = "close_all"   -> close({"long", "short"})

C4_SignalsApplyInScriptOrder ==
  [][ /\ (strategy = "pine" /\ pc = "loop" /\ sigIdx' = sigIdx + 1) => C4_SignalEffect
      /\ (strategy = "pine" /\ pc = "loop" /\ bar' = bar + 1)
           => (position' = position /\ trades' = trades /\ sigIdx = Len(sigs)) ]_vars

\* from flat, open-long then open-short on the same bar: short, and one long
\* trade with entryIndex = exitIndex = the bar
C4_Witness ==
  /\ strategy = "pine" /\ pc = "loop" /\ bar = 1 /\ sigIdx = 2
  /\ sigs[1].type = "long" /\ sigs[2].type = "short"
  /\ position = OpenPos(1, closes[2], "short")
  /\ Len(trades) = 1
  /\ trades[1].direction = "long" /\ trades[1].entryIndex = 1 /\ trades[1].exitIndex = 1

ShortsWithinDouble ==
  \A k \in 1..Len(trades) :
    trades[k].direction = "short" => trades[k].exitPrice <= 2 * trades[k].entryPrice

\* C5 as stated: no value of the equity curve is negative.
C5_EquityNeverNegative ==
  \A k \in 1..Len(equityCurve) : RGe(equityCurve[k], R(0))

\* C5 amended: no value of the equity curve (nor the running equity) is
\* negative as long as no short trade exited above twice its entry price.
C5_EquityNonNegativeWhileShortsWithinDouble ==
  ShortsWithinDouble =>
    /\ \A k \in 1..Len(equityCurve) : RGe(equityCurve[k], R(0))
    /\ RGe(equity, R(0))

C5_Witness ==
  /\ ShortsWithinDouble
  /\ \E k \in 1..Len(trades) :
       trades[k].direction = "short" /\ trades[k].exitPrice > trades[k].entryPrice
  /\ \E k \in 1..Len(trades) :
       trades[k].direction = "long" /\ trades[k].exitPrice < trades[k].entryPrice
  /\ RLt(equityCurve[Len(equityCurve)], R(100))
  /\ RGt(equityCurve[Len(equityCurve)], R(0))

\* ---- claims about the optimizer ------------------------------------------------
Distinct(seq) == \A i \in 1..Len(seq) : \A j \in 1..Len(seq) : i # j => seq[i] # seq[j]

\* C6: when the product of the axis lengths exceeds maxCombinations, at most
\* maxCombinations combinations are yielded and tested, the yielded
\* combinations are pairwise distinct, and so are the parameter maps of the
\* simulator runs and of the returned results.
C6_SampledCombosDistinct ==
  useSampling =>
    /\ Len(yielded) <= config.maxCombinations
    /\ testedCount <= config.maxCombinations
    /\ Distinct([k \in 1..Len(yielded) |-> yielded[k].combo])
    /\ Distinct(simulated)
    /\ pcO = "done" =>
         /\ summary.testedCount <= config.maxCombinations
         /\ Distinct([k \in 1..Len(summary.results) |-> summary.results[k].result.params])

C6_Witness ==
  /\ pcO = "done" /\ useSampling
  /\ Len(yielded) = config.maxCombinations
  /\ summary.testedCount >= 2
  /\ Len(summary.results) >= 2

\* C7: once the sampling loop runs it eventually ends, with exactly
\* maxCombinations distinct combinations yielded (or the consumer stopped at
\* the deadline), under fair draws.
C7_SamplingTerminates ==
  (pcO = "gen" /\ useSampling)
    ~> (pcO = "done" /\ (timedOut \/ (Len(yielded) = config.maxCombinations
                                       /\ Distinct([k \in 1..Len(yielded) |-> yielded[k].combo]))))

\* the m-th (from 0) tuple of value indices in lexicographic order, the first
\* axis slowest: the digits of m in the mixed radix of the axis lengths
lexTuple(ax, m) ==
  [k \in 1..Len(ax) |-> ((m \div totalOf(SubSeq(ax, k + 1, Len(ax)))) % Len(ax[k].values)) + 1]

\* the combination of the values at idxs: each name bound to the value of the
\* last axis carrying it
valuesAt(ax, idxs) ==
  [nm \in {ax[k].name : k \in 1..Len(ax)} |->
     LET last == CHOOSE k \in 1..Len(ax) :
                   ax[k].name = nm /\ \A j \in 1..Len(ax) : ax[j].name = nm => j <= k
     IN  ax[last].values[idxs[last]]]

C9_NeverSimulatesUnorderedPeriods ==
  /\ axes # << >> => testedCount + (IF pcO = "run" THEN 1 ELSE 0) = Len(simulated)
  /\ pcO = "run" =>
       LET p == Resolved(config.strategyType, params)
       IN  /\ config.strategyType \in {"dual_ma", "macd"} => p.fast < p.slow
           /\ config.strategyType = "triple_ma" => (p.fast < p.mid /\ p.mid < p.slow)

\* what C10 says of a returned summary
C10_Returned ==
  pcO = "done" =>
    /\ summary.timedOut = timedOut
    /\ summary.timedOut =>
         /\ config.deadlineMs # 0 /\ now > config.deadlineMs
         /\ processed < Len(yielded)
    /\ ~summary.timedOut =>
         /\ processed = Len(yielded)
         /\ Len(yielded) = (IF axes = << >> THEN 0
                             ELSE IF useSampling THEN config.maxCombinations
                             ELSE totalOf(axes))
    /\ summary.testedCount = Len(simulated)
    /\ \A k \in 1..Len(summary.results) :
         \E j \in 1..Len(simulated) :
           LET r == runOne(config, simulated[j])
           IN  summary.results[k].result = (IF axes = << >> THEN r ELSE [r EXCEPT !.params = simulated[j]])

\* C10: timedOut is true exactly when a deadline check found the time past
\* deadlineMs and stopped the loop before it had gone through every generated
\* combination; the results then come only from the combinations simulated and
\* testedCount is their number; otherwise every generated combination was
\* gone through.  A simulator call that has started always finishes and is
\* counted, whatever the clock does meanwhile.
C10_DeadlineStopsBetweenRuns ==
  /\ []C10_Returned
  /\ [][pcO = "run" => \/ (pcO' = "run" /\ testedCount' = testedCount /\ timedOut' = timedOut)
                       \/ (pcO' = "gen" /\ testedCount' = testedCount + 1 /\ ~timedOut')]_vars

C10_Witness ==
  /\ pcO = "done" /\ summary.timedOut
  /\ summary.testedCount = DEADLINE_CHECK_INTERVAL
  /\ Len(summary.results) >= 1
  /\ Len(yielded) = DEADLINE_CHECK_INTERVAL + 1

\* C11: no entry of the returned results has zero trades.
C11_NoZeroTradeResultReturned ==
  pcO = "done" =>
    \A k \in 1..Len(summary.results) : summary.results[k].result.totalTrades > 0

\* the results of the simulator runs that returned with at least one trade, as
\* the loop keeps them
Survivors ==
  {[runOne(config, simulated[j]) EXCEPT !.params = simulated[j]] : j \in
     {i \in 1..Len(simulated) : LET r == runOne(config, simulated[i])
                                IN  ~r.threw /\ r.totalTrades > 0}}

\* C12: the returned results are in non-increasing order of score, at most
\* topN, ranked 1, 2, ..., k in list order, each entry's score is its result's
\* sort field, and no surviving result with a strictly higher score than a
\* returned one is left out.
C12_ResultsRankedByScore ==
  pcO = "done" =>
    LET rs == summary.results
    IN  /\ Len(rs) <= config.topN
        /\ \A k \in 1..Len(rs) : rs[k].rank = k /\ rs[k].score = rs[k].result.score
        /\ \A k \in 1..(Len(rs) - 1) : rs[k].score >= rs[k + 1].score
        /\ axes # << >> =>
             \A r \in Survivors :
               \/ \E k \in 1..Len(rs) : rs[k].result = r
               \/ \A k \in 1..Len(rs) : rs[k].score >= r.score

\* more survivors than topN, with different scores, the lowest left out
C12_Witness ==
  /\ pcO = "done" /\ axes # << >>
  /\ Len(summary.results) = config.topN /\ config.topN >= 2
  /\ summary.results[1].score > summary.results[2].score
  /\ \E r \in Survivors :
       /\ r.score < summary.results[2].score
       /\ \A k \in 1..Len(summary.results) : summary.results[k].result # r

\* C13: every returned result carries as params exactly the map passed to the
\* simulator run that produced it: the fixed parameters, overridden by the
\* combination's values.
C13_ParamsAreThoseSimulated ==
  pcO = "done" =>
    \A k \in 1..Len(summary.results) :
      LET r == summary.results[k].result
      IN  /\ \E j \in 1..Len(simulated) : simulated[j] = r.params
          /\ IF axes = << >> THEN r.params = config.fixedParams
             ELSE \E y \in 1..Len(yielded) : r.params = Spread(config.fixedParams, yielded[y].combo)
          /\ [r EXCEPT !.params = EmptyObj] = [runOne(config, r.params) EXCEPT !.params = EmptyObj]

\* some enabled range has min > max
HasInvertedRange ==
  \E k \in 1..Len(config.paramRanges) :
    config.paramRanges[k].enabled /\ config.paramRanges[k].min > config.paramRanges[k].max

\* C14: with an enabled range whose min > max, optimize returns no summary and
\* simulates nothing.
C14_InvertedRangeFails ==
  HasInvertedRange => (pcO # "done" /\ simulated = << >>)

\* ---- claims about the script runtime ----------------------------------------------
\* the script without the lines that cannot be evaluated
RECURSIVE withoutBadLines(_)
withoutBadLines(lines) ==
  IF lines = << >> THEN << >>
  ELSE (IF Head(lines).toks \in BadLines THEN << >> ELSE <<Head(lines)>>)
         \o withoutBadLines(Tail(lines))

\* C15: a line that cannot be evaluated has no effect and does not stop the
\* execution: after execute the variables bound and the signals recorded are
\* those of the script without that line.
C15_BadLineHasNoEffect ==
  pc # "new" =>
    LET clean == execute(withoutBadLines(code), 1, NewRuntime)
    IN  /\ rt.signals = clean.signals
        /\ rt.vars = clean.vars

\* the lines holding an entry/exit call, and the `if` lines whose block (by
\* indentation) holds line j
CallLines == {j \in 1..Len(code) : isStrategyCall(code[j].toks)}

Enclosing(j) ==
  {p \in 1..(j - 1) :
     /\ code[p].toks # << >> /\ code[p].toks[1] = "if"
     /\ \A q \in (p + 1)..j : code[q].toks = << >> \/ code[q].indent > code[p].indent}

\* the condition of the `if` at line p as a series, evaluated in the
\* environment the lines before p leave
condSeriesAt(p) ==
  LET v == evalExprAsBoolSeries(condExprOf(code[p].toks),
                                execute(SubSeq(code, 1, p - 1), 1, NewRuntime).vars)
  IN  IF v.t = "array" THEN v.s ELSE Fill(B(FALSE))

\* the signal recorded for the call at line j: signals are in script order
signalOf(j) == rt.signals[Cardinality({x \in CallLines : x <= j})]

\* C16: each entry/exit call inside the block of an `if` (by indentation) is a
\* signal guarded by that `if`'s condition series as evaluated at the `if`
\* line, whatever other blocks the script has; a call outside every block is
\* guarded by always-true.
C16_CallsGuardedByTheirIf ==
  (pc # "new" /\ ~rt.threw) =>
    /\ Len(rt.signals) = Cardinality(CallLines)
    /\ \A j \in CallLines :
         /\ Enclosing(j) = {} => signalOf(j).condName = "true"
         /\ \A p \in Enclosing(j) :
              \A i \in 0..(N - 1) :
                condAt(rt, signalOf(j).condName, i) = Truthy(condSeriesAt(p)[i + 1])

\* the comparison of a condition, under its `not` and its parentheses
RECURSIVE comparisonOf(_)
comparisonOf(toks) ==
  IF toks # << >> /\ toks[1] \in {"not", "!"} THEN comparisonOf(Tail(toks))
  ELSE IF toks # << >> /\ toks[1] = "(" /\ toks[Len(toks)] = ")"
       THEN comparisonOf(SubSeq(toks, 2, Len(toks) - 1))
  ELSE toks

\* the condition of the `if` at line p compares, and one operand is NaN at bar i
comparesNaNAt(p, i) ==
  LET c  == comparisonOf(condExprOf(code[p].toks))
      vs == execute(SubSeq(code, 1, p - 1), 1, NewRuntime).vars
  IN  \E op \in {">=", "<=", "!=", "==", ">", "<"} :
        LET parts == splitBinary(c, op)
            a == evalExprAsNumSeries(parts.left, vs)
            b == evalExprAsNumSeries(parts.right, vs)
        IN  /\ parts.ok /\ a.t = "array" /\ b.t = "array"
            /\ (IsNaN(a.s[i + 1]) \/ IsNaN(b.s[i + 1]))

\* the k-th signal is guarded by one `if` only, whose comparison has a NaN
\* operand at bar i
guardedByNaNAt(k, i) ==
  \E j \in CallLines :
    /\ Cardinality({x \in CallLines : x <= j}) = k
    /\ \E p \in Enclosing(j) : Enclosing(j) = {p} /\ comparesNaNAt(p, i)

\* C17: a signal whose guard is a comparison (negated or not) with a NaN
\* operand at bar i does not fire at bar i: the step that evaluates it leaves
\* the position and the trades as they are.
C17_NaNComparisonNeverFires ==
  [][(pc = "loop" /\ strategy = "pine" /\ code # << >> /\ ~rt.threw
        /\ sigIdx' = sigIdx + 1 /\ guardedByNaNAt(sigIdx + 1, bar))
       => (position' = position /\ trades' = trades)]_vars

\* ==== claims about the presets ===================================================
ConstantCloses == \A x, y \in 1..Len(closes) : closes[x] = closes[y]

\* C18: every preset, whatever its parameters, run on a series of constant
\* closes of any length returns zero trades, totalReturnPct = 0 and
\* maxDrawdownPct = 0.
C18_ConstantClosesNoTrades ==
  (pc = "done" /\ strategy \in Strategies \ {"pine"} /\ ConstantCloses)
    => /\ trades = << >>
       /\ result.totalTrades = 0
       /\ result.totalReturnPct = R(0)
       /\ result.maxDrawdownPct = R(0)

\* C19: the dual-MA preset with fast 3, slow 5 and SMA on 30 strictly increasing
\* closes opens exactly one position, a long one, which is the only trade of
\* the run; there is no short trade.
C19_OneLongEntryOnUptrend ==
  (pc = "done" /\ strategy = "dual_ma" /\ prm = UptrendPrm /\ closes \in UptrendSeries)
    => /\ opened = 1
       /\ Len(trades) = 1
       /\ trades[1].direction = "long"

\* the presets that trade on crossings only
CrossingPresets == {"rsi", "dual_ma", "macd"}

Alternate(trs) == \A k \in 1..(Len(trs) - 1) : trs[k].direction # trs[k + 1].direction

\* a step of the run that replaces an open position by one of the other direction
Reverses == position.open /\ position'.open /\ position'.direction # position.direction

\* what a reversing step does: the open position becomes the last trade,
\* exited at the bar and price the new position is entered at
ClosesOppositeFirst ==
  /\ Len(trades') = Len(trades) + 1
  /\ LET t == trades'[Len(trades')]
     IN  /\ t.direction = position.direction
         /\ t.entryIndex = position.entryIndex /\ t.entryPrice = position.entryPrice
         /\ t.exitIndex = bar /\ t.exitPrice = Close(bar)
  /\ position'.entryIndex = bar /\ position'.entryPrice = Close(bar)

AlternatingStep ==
  /\ Alternate(trades')
  /\ (position.open /\ position'.open /\ position' # position) => Reverses
  /\ Reverses => ClosesOppositeFirst

\* C20: in the RSI preset, and likewise the dual-MA and MACD presets, on every
\* bar series: two consecutive trades of the trade list never have the same
\* direction, an open position is only ever replaced by one of the opposite
\* direction, and the step that opens it first closes the opposite position
\* as one trade, at the same bar and price as the new entry.
C20_EntriesAlternate == [][(strategy \in CrossingPresets) => AlternatingStep]_vars

\* an RSI run that went long, reversed to short and was closed at the end
C20_Witness ==
  /\ pc = "done" /\ strategy = "rsi" /\ Len(trades) = 2
  /\ trades[1].direction = "long" /\ trades[2].direction = "short"
  /\ trades[2].entryIndex = trades[1].exitIndex /\ trades[2].entryPrice = trades[1].exitPrice

\* ==== claims about the equity curve and the trade records ====================
\* the curve holds 100 and then one entry for each bar index the loop has visited
CurveShape ==
  /\ equityCurve[1] = R(100)
  /\ Len(equityCurve) = 1 + (bar - LoopStart(strategy, prm))
  /\ (pc = "done" /\ strategy = "pine") => Len(equityCurve) = N

\* a step either leaves the curve alone or visits one bar and appends its entry;
\* the entry repeats the previous one unless a trade was closed at that bar
CurveStep ==
  \/ equityCurve' = equityCurve /\ bar' = bar
  \/ /\ bar' = bar + 1
     /\ Len(equityCurve') = Len(equityCurve) + 1
     /\ SubSeq(equityCurve', 1, Len(equityCurve)) = equityCurve
     /\ equityCurve'[Len(equityCurve')] = equity'
     /\ (\A k \in 1..Len(trades') : trades'[k].exitIndex # bar)
          => equityCurve'[Len(equityCurve')] = equityCurve[Len(equityCurve)]

\* C21: in every run the equity curve starts with 100 and gains exactly one
\* entry per bar index the simulation loop visits, whether that bar closes a
\* trade, is skipped for NaN indicators or does nothing (the entry then repeats
\* the previous one); a DSL run on n >= 1 bars ends with a curve of length n;
\* an entry once appended is never changed.
C21_CurveOneEntryPerBar == [](CurveShape) /\ [][CurveStep]_vars

\* a finished run whose curve has a repeated entry followed by a changed one
C21_Witness ==
  /\ pc = "done" /\ Len(equityCurve) >= 3
  /\ equityCurve[2] = equityCurve[1]
  /\ equityCurve[3] # equityCurve[2]

\* the price move in the trade's favour
adjustedMove(t) ==
  IF t.direction = "long" THEN t.exitPrice - t.entryPrice ELSE t.entryPrice - t.exitPrice

\* C22: for every trade, pointsMove is the direction-adjusted price move
\* (exitPrice - entryPrice for a long, entryPrice - exitPrice for a short) and
\* pnlDollars is pointsMove * pointValue for a point-value (futures) asset and
\* 0 for a percentage-based asset.
C22_PointsMoveAndDollars ==
  \A k \in 1..Len(trades) :
    LET t == trades[k]
    IN  /\ t.pointsMove = adjustedMove(t)
        /\ t.pnlDollars = (IF assetConfig.type = "futures"
                           THEN t.pointsMove * assetConfig.pointValue ELSE 0)

\* ==== claims about the indicator library ===========================================
\* C23: calcSMA, calcEMA, calcWMA and calcRSI return, for every input series
\* and period >= 1 (an empty series and a series not longer than the period
\* included), a series exactly as long as the input, and leave the input
\* series as it was.
C23_IndicatorsPreserveLength ==
  indCall.pc = "returned" =>
    /\ Len(indCall.result) = Len(indCall.given)
    /\ indCall.prices = indCall.given

\* ==== claims about the expression evaluator =========================================
\* the expression assigned to x by the script's second line
exprOfX == SubSeq(code[2].toks, 3, Len(code[2].toks))

\* an operand as a series, once the script has run
operand(tok) ==
  IF tok \in DOMAIN rt.vars THEN rt.vars[tok].s ELSE Fill(parseFloat(<<tok>>))

\* the operator applied element by element
applied(op, a, b) ==
  [i \in 1..N |->
     CASE op = "+" -> RAdd(a[i], b[i])
       [] op = "-" -> RSub(a[i], b[i])
       [] op = "*" -> RMul(a[i], b[i])
       [] OTHER    -> RDiv(a[i], b[i])]

XIs(series) == "x" \in DOMAIN rt.vars /\ rt.vars["x"] = Arr(series)

\* C24: evalExpr removes an outer pair of parentheses only when the opening
\* one at the start matches the closing one at the end: `(a + b)` is a + b,
\* and an expression that merely starts with '(' and ends with ')' such as
\* `(a + b) * (c - d)` is the operator applied to its two parenthesized
\* operands, not 'no value'.
C24_ParenthesesUnwrapOnlyWhenMatching ==
  (pc # "new" /\ code \in ExprScripts) =>
    LET e == exprOfX
    IN  /\ e \in WrappedExprs => XIs(applied(e[3], operand(e[2]), operand(e[4])))
        /\ e \in ProductExprs =>
             XIs(applied(e[6], applied(e[3], operand(e[2]), operand(e[4])),
                               applied(e[9], operand(e[8]), operand(e[10]))))

\* C29: chained subtraction and chained division are left-associative: for
\* numeric series a, b, c, `a - b - c` is (a - b) - c and `a / b / c` is
\* (a / b) / c, element by element.
C29_ChainsAreLeftAssociative ==
  (pc # "new" /\ code \in ExprScripts /\ exprOfX \in ChainExprs) =>
    LET e == exprOfX
    IN  XIs(applied(e[4], applied(e[2], operand(e[1]), operand(e[3])), operand(e[5])))

\* ==== Bollinger mean reversion ======================================================
\* a position is opened on this step
Opens == opened' # opened
\* a trade is recorded on this step
ClosesTrade == trades' # trades
\* the close at the bar is on the basis side that ends a position of direction dir
AtBasis(dir, i) ==
  IF dir = "long" THEN RGe(R(Close(i)), At(ind.a, i)) ELSE RLe(R(Close(i)), At(ind.a, i))

BollingerStep ==
  /\ Opens => (~position.open /\ ~ClosesTrade)
  /\ ClosesTrade =>
       /\ position.open
       /\ Len(trades') = Len(trades) + 1
       /\ pc' = "done" \/ (AtBasis(position.direction, bar) /\ ~position'.open)
  /\ ~Reverses

\* C25: in the Bollinger strategy a position is opened only when no position
\* is open; a long is closed only at a bar whose close is at or above the
\* basis, a short only at a bar whose close is at or below it, or by the forced
\* close at the end of the data; a position is never reversed and no bar both
\* closes a trade and opens another.
C25_BollingerOpensFlatClosesAtBasis == [][(strategy = "bollinger") => BollingerStep]_vars

\* a Bollinger run over a two-bar window that closed its short inside the loop
C25_Witness ==
  /\ strategy = "bollinger" /\ prm.period > 1
  /\ pc = "loop" /\ Len(trades) = 1 /\ ~position.open
  /\ trades[1].direction = "short"

\* ==== triple moving average =========================================================
\* the three averages are defined at bar i
Defined(i) == \A a \in {ind.a, ind.b, ind.c} : ~IsNaN(At(a, i))
Neutral(i) == ~Bullish(i) /\ ~Bearish(i)

\* the loop of the triple-MA run is about to process a neutral bar with a position open
NeutralBarAhead ==
  /\ strategy = "triple_ma" /\ pc = "loop" /\ bar < N
  /\ Defined(bar) /\ Neutral(bar) /\ position.open

ClosedFlat ==
  /\ trades' = Append(trades, closeTrade(position, bar, Close(bar)))
  /\ opened' = opened
  /\ position' = NoPos

\* C26: in the triple-MA strategy, at any bar with defined indicators where
\* neither the bullish nor the bearish alignment holds and a position is open,
\* that position is closed as one trade at the bar's close, no position is
\* opened on that bar, and the strategy is flat after the bar.
C26_NeutralBarClosesPosition == [][NeutralBarAhead => ClosedFlat]_vars

\* a triple-MA run whose only trade was closed inside the loop on a neutral bar
C26_Witness ==
  /\ strategy = "triple_ma" /\ pc = "loop" /\ bar > 1
  /\ Len(trades) = 1 /\ ~position.open
  /\ trades[1].exitIndex = bar - 1 /\ Defined(bar - 1) /\ Neutral(bar - 1)

\* C30: in the triple-MA strategy, for series whose three averages are defined
\* from the start of the loop on, after every processed bar a long position is
\* open only if the bullish alignment holds at that bar and a short position
\* only if the bearish alignment holds at that bar.
C30_PositionFollowsAlignment ==
  (/\ strategy = "triple_ma" /\ pc = "loop"
   /\ bar > LoopStart(strategy, prm)
   /\ \A i \in (LoopStart(strategy, prm) - 1)..(bar - 1) : Defined(i)
   /\ position.open)
  => IF position.direction = "long" THEN Bullish(bar - 1) ELSE Bearish(bar - 1)

\* a long opened at one bar and still open after the next
C30_Witness ==
  /\ strategy = "triple_ma" /\ pc = "loop"
  /\ \A i \in (LoopStart(strategy, prm) - 1)..(bar - 1) : Defined(i)
  /\ position.open /\ position.direction = "long" /\ position.entryIndex < bar - 1
  /\ Bullish(bar - 1)

\* ==== else branches =================================================================
\* the call of the `if` branch is the first recorded signal, the call of the
\* else branch every later one; a signal fires at a bar when its guard holds there
FiresAt(k, i) == k <= Len(sigs) /\ getCondAt(sigs[k].condName, i)

\* C27: the runtime supports if / else if / else blocks: an entry or exit call
\* in the `else` or `else if` branch of an `if` never fires on a bar where that
\* `if`'s condition is true.
C27_ElseBranchSilentWhenIfHolds ==
  (pc # "new" /\ code \in ElseScripts) =>
    \A i \in 0..(N - 1) : \A k \in 2..Len(sigs) : FiresAt(1, i) => ~FiresAt(k, i)

\* ==== the deadline ==================================================================
\* C28: once the wall clock has passed deadlineMs, optimize starts at most
\* DEADLINE_CHECK_INTERVAL (50) further simulator runs before it returns,
\* whatever number of combinations the filters skip or the simulator fails on
\* in between.
C28_AtMostFiftyRunsPastDeadline == lateRuns <= DEADLINE_CHECK_INTERVAL

\* the deadline passed between the first guard and the first call: fifty runs
\* were started past it before the guard at testedCount = 50 stopped the loop
C28_Witness ==
  /\ pcO = "done" /\ summary.timedOut
  /\ lateRuns = DEADLINE_CHECK_INTERVAL
  /\ summary.testedCount = DEADLINE_CHECK_INTERVAL

====
